---- MODULE Spec2Model ----
(***************************************************************************)
(* Variant reconciliation of the chat page and of the message-variants     *)
(* API: the MessageVersion rows of the last assistant message of one       *)
(* session, the POST/PUT/DELETE/GET handlers of /api/messages/:id/variants *)
(* and the chat page's client state (messageVariants, currentVariantIndex, *)
(* variantDisplayContent, generatingVariant ...).                          *)
(*                                                                         *)
(* Texts are sequences of tokens: the original message is <<0>>, every    *)
(* content delta of generation g is the token g, the j-th variant saved    *)
(* before the page was loaded is <<MaxGens + j>>, the empty string is <<>>.*)
(* The 'stream' setting is read from the database and does not change.     *)
(* The model follows the message from the loaded page until a chat request *)
(* is issued for the session; the chat endpoint itself is not part of it.  *)
(***************************************************************************)
EXTENDS Integers, Sequences, FiniteSets, TLC

\* ------------------------------------------------------------------ bounds
\* generateVariant invocations followed in one behaviour
MaxGens == 1
\* content deltas the upstream API sends for one generation
MaxDeltas == 1
\* variants the message already has when the page is loaded
MaxInitRows == 1
\* POST .../variants handlers running at the same time, requests served in all,
\* and DELETE .../variants served, in the allocation specification
MaxRequests == 2
MaxPosts == 4
MaxDeletes == 1
\* content deltas the upstream API sends to one chat request
MaxEpDeltas == 2
\* POST /api/characters requests served
MaxCharacterPosts == 3
\* DELETE /api/personas/:id requests served, and messages added meanwhile
MaxPersonaDeletes == 2
MaxAdded == 2
\* milliseconds that may pass while a PUT /api/sessions/:id is served
MaxClock == 2
\* days the auth clock runs
MaxDays == 8
\* content deltas of the byte stream read by the streaming loop
MaxRelayDeltas == 2
\* requests served by the importer endpoints
MaxImporterCalls == 4
\* requests that touch the messages or the summary of the session
MaxSummaryOps == 5
\* generation requests running beside the commit requests
MaxCommitPosts == 2
\* runs of the polling effect that start a check, and GETs of the page
MaxEffects == 2
MaxGets == 4

\* ------------------------------------------------------- program constants
\* const maxRetries = 3 of the version allocation (POST) and of GET .../latest
maxRetries == 3
\* expiresIn: '7d' of the login token, in days
expiresIn == 7

Gens == 1..MaxGens
Requests == 1..MaxRequests
\* the assistant message the variants belong to
Msgs == {"m"}
OrigContent == <<0>>
EmptyText == <<>>

VARIABLES
    \* ---- database
    chatMessage,            \* ChatMessage.content, by message id
    messageVersion,         \* set of MessageVersion rows
    nextRowId,              \* autoincrement id of MessageVersion
    settingStream,          \* Setting 'stream' = 'true'
    \* ---- POST /api/messages/:id/variants, one handler run per generation
    post,                   \* handler locals and position
    pipe,                   \* SSE lines written to the response, per generation
    \* ---- chat page
    messages,               \* content shown for a message (messages state)
    messageVariants,        \* Map messageId -> MessageVersion[]
    currentVariantIndex,    \* Map messageId -> pointer (0 = original)
    variantDisplayContent,  \* Map messageId -> displayed text
    variantSelection,       \* localStorage variant-selection-<session>-<message>
    generatingVariant,      \* null ("none") or a message id
    loading,
    isStreaming,
    variantAbortController, \* ref: 0 (null) or the generation it aborts
    session,                \* SWR data of /api/sessions/:id
    gv,                     \* generateVariant invocations (async continuations)
    chat,                   \* handleSend / continueConversation invocation
    \* ---- message editing
    requests,               \* POST .../variants handlers of any client
    posted,                 \* how many of them were started
    deleted,                \* how many DELETE .../variants were served
    sessionMessages,        \* ChatMessage rows of the chat session, in order
    ep,                     \* POST /api/chat handler
    upstream,               \* the language model's answer to that handler
    saves,                  \* saveAssistantMessage invocations in progress
    character,              \* Character rows
    characterPosts,         \* POST /api/characters handlers
    persona,                \* ids of the Persona rows
    chatSession,            \* ChatSession rows [id, personaId]
    sessionMessage,         \* ChatMessage rows [id, sessionId] of those sessions
    personaDelete,          \* DELETE /api/personas/:id handler
    del,                    \* confirmDeleteMessage and the PUT /api/sessions/:id it sends
    auth,                   \* the server's auth modules, the clock and the token
    relay,                  \* the streaming loop reading the upstream byte stream
    importer,               \* latestImport of the two importer modules, and their calls
    summ,                   \* a session's messages, summary and lastSummary
    commits,                \* PUT .../variants handlers (commit) of any client
    poll,                   \* import polling of the chat list page
    editingMessageIndex,    \* null ("none") or the message being edited
    edit                    \* saveEditedMessage invocation

dbVars == <<chatMessage, messageVersion, nextRowId, settingStream>>
postVars == <<post, pipe>>
pageVars == <<messages, messageVariants, currentVariantIndex, variantDisplayContent,
              variantSelection, generatingVariant, loading, isStreaming,
              variantAbortController, session>>
\* state outside the variant life cycle
editVars == <<editingMessageIndex, edit>>
allocVars == <<requests, posted, deleted>>
chatEpVars == <<sessionMessages, ep, upstream, saves>>
characterVars == <<character, characterPosts>>
personaVars == <<persona, chatSession, sessionMessage, personaDelete>>
restVars == <<relay, importer, summ, commits, poll>>
otherVars ==
    <<editVars, allocVars, chatEpVars, characterVars, personaVars, del, auth, restVars>>
\* the state of the variant life cycle and of the areas above
firstVars ==
    <<dbVars, postVars, pageVars, gv, chat, editVars, allocVars, chatEpVars,
      characterVars, personaVars, del, auth>>
\* what the edit flow leaves alone
notEdit == <<allocVars, chatEpVars, characterVars, personaVars, del, auth, restVars>>
vars == <<dbVars, postVars, pageVars, gv, chat, otherVars>>

\* ------------------------------------------------------------ Map helpers
MapHas(map, k) == k \in DOMAIN map
MapSet(map, k, v) == [x \in (DOMAIN map) \cup {k} |-> IF x = k THEN v ELSE map[x]]
MapDelete(map, k) == [x \in (DOMAIN map) \ {k} |-> map[x]]
EmptyMap == [x \in {} |-> 0]
\* map.get(k) || dflt
MapGetOr(map, k, dflt) == IF k \in DOMAIN map THEN map[k] ELSE dflt

Max(a, b) == IF a >= b THEN a ELSE b
Min(a, b) == IF a <= b THEN a ELSE b

\* ------------------------------------------------------------- database
RowsOf(m) == {v \in messageVersion : v.messageId = m}

\* findFirst({where: {messageId}, orderBy: {version: 'desc'}})
LatestRow(rows) == CHOOSE v \in rows : \A w \in rows : w.version <= v.version

\* lastVersion?.version || 0
LastVersionOf(rows) == IF rows = {} THEN 0 ELSE LatestRow(rows).version

RECURSIVE SortByVersion(_)
\* findMany({where: {messageId}, orderBy: {version: 'asc'}})
SortByVersion(rows) ==
    IF rows = {} THEN <<>>
    ELSE LET lo == CHOOSE v \in rows :
                     \A w \in rows : v.version < w.version
                                     \/ (v.version = w.version /\ v.id <= w.id)
         IN <<lo>> \o SortByVersion(rows \ {lo})

NewRow(id, m, content, version) ==
    [id |-> id, messageId |-> m, content |-> content, version |-> version,
     isActive |-> FALSE]

\* ---- SSE lines of the response
ConnectedLine == [t |-> "connected", v |-> 0]
DoneLine == [t |-> "DONE", v |-> 0]
SavedLine == [t |-> "variant_saved", v |-> 0]
NotSavedLine == [t |-> "variant_not_saved", v |-> 0]
ContentLine(tok) == [t |-> "content", v |-> tok]

\* ------------------------------------------------- POST handler (variants)
\* no row (null)
NoRow == [id |-> 0, messageId |-> "none", content |-> <<>>, version |-> 0,
          isActive |-> FALSE]

IdlePost ==
    [pc |-> "idle", gen |-> 0, messageId |-> "m", stream |-> FALSE, nextVersion |-> 1,
     retryCount |-> 0, assistantText |-> EmptyText, clientDisconnected |-> FALSE,
     streamCompletedNaturally |-> FALSE, resDestroyed |-> FALSE,
     closeEmitted |-> FALSE, upDeltas |-> 0, upDone |-> FALSE,
     status |-> 0, body |-> NoRow, created |-> 0, discAt |-> "none"]

\* the handler has attached req.on('close') / req.on('aborted')
ListenersAttached(p) == p.stream /\ p.pc \in {"read", "saving", "done"}

\* canWriteToResponse()
canWriteToResponse(p) == ~p.clientDisconnected /\ ~p.resDestroyed

\* clientDisconnected || !canWriteToResponse()
DisconnectSeen(p) == p.clientDisconnected \/ ~canWriteToResponse(p)

\* nextVersion = (lastVersion?.version || 0) + 1
AllocReadOf(p) ==
    [p EXCEPT !.nextVersion = LastVersionOf(RowsOf(p.messageId)) + 1,
              !.pc = "allocCheck"]

AllocRead(g) ==
    /\ post[g].pc = "allocRead"
    /\ post' = [post EXCEPT ![g] = AllocReadOf(post[g])]
    /\ UNCHANGED <<dbVars, pipe, pageVars, gv, chat, otherVars>>

\* findUnique({messageId_version}): free -> go on; taken -> retry or give up
existingVersion(p) == \E v \in RowsOf(p.messageId) : v.version = p.nextVersion

\* a check that lets the request go on whatever it finds (C13 fails with it)
AllocCheckIgnoresTaken(p) == [p EXCEPT !.pc = "fetch"]

AllocCheckOf(p) ==
    IF ~existingVersion(p) THEN [p EXCEPT !.pc = "fetch"]
    ELSE IF p.retryCount + 1 >= maxRetries
         THEN [p EXCEPT !.retryCount = p.retryCount + 1,
                        !.pc = "done", !.status = 500]
         ELSE [p EXCEPT !.retryCount = p.retryCount + 1, !.pc = "allocRead"]

AllocCheck(g) ==
    /\ post[g].pc = "allocCheck"
    /\ post' = [post EXCEPT ![g] = AllocCheckOf(post[g])]
    /\ UNCHANGED <<dbVars, pipe, pageVars, gv, chat, otherVars>>

\* the text the upstream API generates for generation g, n deltas long
GenText(g, n) == [i \in 1..n |-> g]

\* fetch(deepseek): not ok -> throw -> 500; non-streaming -> content or throw;
\* streaming -> SSE headers and the "connected" status line
PostFetch(g) ==
    /\ post[g].pc = "fetch"
    /\ LET p == post[g] IN
       \E ok \in BOOLEAN, n \in 0..MaxDeltas :
          /\ ok \/ n = 0
          /\ p.stream => n = 0
          /\ IF ~ok \/ (~p.stream /\ n = 0)
             THEN /\ post' = [post EXCEPT ![g].pc = "done", ![g].status = 500]
                  /\ pipe' = pipe
             ELSE IF ~p.stream
             THEN /\ post' = [post EXCEPT ![g].pc = "saving",
                                          ![g].assistantText = GenText(g, n)]
                  /\ pipe' = pipe
             ELSE /\ post' = [post EXCEPT ![g].pc = "read", ![g].status = 200]
                  /\ pipe' = [pipe EXCEPT ![g] = Append(@, ConnectedLine)]
    /\ UNCHANGED <<dbVars, pageVars, gv, chat, otherVars>>

\* chunks reader.read() may deliver: data lines, "D" a content delta
Chunks == {<<"D">>, <<"D", "D">>, <<"D", "DONE">>, <<"DONE">>}
DeltasIn(lines) == Cardinality({i \in 1..Len(lines) : lines[i] = "D"})
HasDoneLine(lines) == \E i \in 1..Len(lines) : lines[i] = "DONE"

RECURSIVE ProcessLines(_, _, _)
\* for (const line of lines): [DONE] marks natural completion, is relayed and
\* ends the for loop; a delta is accumulated and relayed. Called only while
\* canWriteToResponse() holds (the loop head breaks otherwise).
ProcessLines(p, out, lines) ==
    IF lines = <<>> THEN [p |-> p, out |-> out]
    ELSE IF Head(lines) = "DONE"
    THEN [p |-> [p EXCEPT !.streamCompletedNaturally = TRUE],
          out |-> Append(out, DoneLine)]
    ELSE ProcessLines([p EXCEPT !.assistantText = Append(@, p.gen)],
                      Append(out, ContentLine(p.gen)), Tail(lines))

\* a final check that looks at the clientDisconnected flag only (C1 fails with it)
finalCheckFlagOnly(p) == p.clientDisconnected

\* const finalClientDisconnectCheck = clientDisconnected || !canWriteToResponse()
finalClientDisconnectCheck(p) == DisconnectSeen(p)

\* a save decision that does not ask for [DONE] (C20 fails with it)
SaveDecisionWithoutDone(p) ==
    IF finalClientDisconnectCheck(p)
    THEN [p |-> [p EXCEPT !.pc = "done"], out |-> <<>>]
    ELSE IF p.assistantText # EmptyText
    THEN [p |-> [p EXCEPT !.pc = "saving"], out |-> <<>>]
    ELSE [p |-> [p EXCEPT !.pc = "done"],
          out |-> IF canWriteToResponse(p) THEN <<NotSavedLine>> ELSE <<>>]

\* the save decision after the read loop: [new handler state, lines written]
SaveDecision(p) ==
    IF finalClientDisconnectCheck(p)
    THEN [p |-> [p EXCEPT !.pc = "done"], out |-> <<>>]
    ELSE IF p.streamCompletedNaturally /\ p.assistantText # EmptyText
    THEN [p |-> [p EXCEPT !.pc = "saving"], out |-> <<>>]
    ELSE [p |-> [p EXCEPT !.pc = "done"],
          out |-> IF canWriteToResponse(p) THEN <<NotSavedLine>> ELSE <<>>]

\* one turn of while (true) { await reader.read() ... } and, when the loop is
\* left, the save decision that follows it without an await
StreamAfterRead(p, ev, lines) ==
    IF ev = "eof" THEN SaveDecision(p)
    ELSE IF ev = "err"
    THEN SaveDecision([p EXCEPT !.streamCompletedNaturally = FALSE])
    ELSE IF DisconnectSeen(p) THEN SaveDecision(p)
    ELSE ProcessLines(p, <<>>, lines)

ServerRead(g) ==
    /\ post[g].pc = "read"
    /\ LET p == post[g] IN
       \E ev \in {"chunk", "eof", "err"}, lines \in Chunks :
          /\ ev # "chunk" => lines = <<"D">>
          /\ ev = "chunk" => /\ ~p.upDone
                             /\ p.upDeltas + DeltasIn(lines) <= MaxDeltas
          /\ LET up == IF ev = "chunk"
                       THEN [p EXCEPT !.upDeltas = @ + DeltasIn(lines),
                                      !.upDone = HasDoneLine(lines)]
                       ELSE p
                 r == StreamAfterRead(up, ev, lines)
             IN /\ post' = [post EXCEPT ![g] = r.p]
                /\ pipe' = [pipe EXCEPT ![g] = @ \o r.out]
    /\ UNCHANGED <<dbVars, pageVars, gv, chat, otherVars>>

\* prisma.messageVersion.create: unique (messageId, version), P2002 on conflict
PostSave(g) ==
    /\ post[g].pc = "saving"
    /\ LET p == post[g]
           conflict == \E v \in RowsOf(p.messageId) : v.version = p.nextVersion
           row == NewRow(nextRowId, p.messageId, p.assistantText, p.nextVersion)
       IN IF conflict
          THEN /\ post' = [post EXCEPT ![g].pc = "done",
                              ![g].status = IF p.stream THEN p.status ELSE 409]
               /\ pipe' = [pipe EXCEPT ![g] =
                              IF p.stream /\ canWriteToResponse(p)
                              THEN Append(@, NotSavedLine) ELSE @]
               /\ UNCHANGED dbVars
          ELSE /\ messageVersion' = messageVersion \cup {row}
               /\ nextRowId' = nextRowId + 1
               /\ UNCHANGED <<chatMessage, settingStream>>
               /\ post' = [post EXCEPT ![g].pc = "done", ![g].created = row.id,
                              ![g].body = row,
                              ![g].status = IF p.stream THEN p.status ELSE 201]
               /\ pipe' = [pipe EXCEPT ![g] =
                              IF p.stream /\ canWriteToResponse(p)
                              THEN Append(@, SavedLine) ELSE @]
    /\ UNCHANGED <<pageVars, gv, chat, otherVars>>

\* the client's abort reaches the server: the connection is gone
SocketClose(g) ==
    /\ gv[g].aborted
    /\ post[g].pc \notin {"idle", "done"}
    /\ ~post[g].resDestroyed
    /\ post' = [post EXCEPT ![g].resDestroyed = TRUE, ![g].discAt = post[g].pc]
    /\ UNCHANGED <<dbVars, pipe, pageVars, gv, chat, otherVars>>

\* req.on('close', ...) ; lost when it is emitted before the listener exists
OnClose(g) ==
    /\ post[g].resDestroyed /\ ~post[g].closeEmitted
    /\ post' = [post EXCEPT ![g].closeEmitted = TRUE,
                   ![g].clientDisconnected = @ \/ ListenersAttached(post[g])]
    /\ UNCHANGED <<dbVars, pipe, pageVars, gv, chat, otherVars>>

\* req.on('aborted', ...)
OnAborted(g) ==
    /\ post[g].resDestroyed /\ ~post[g].closeEmitted
    /\ post' = [post EXCEPT ![g].closeEmitted = TRUE,
                   ![g].clientDisconnected = @ \/ ListenersAttached(post[g])]
    /\ UNCHANGED <<dbVars, pipe, pageVars, gv, chat, otherVars>>

\* ------------------------------------------------------------ chat page
\* the page's state as one record, so that handlers are functions on it
Page ==
    [msgs |-> messages, mv |-> messageVariants, cvi |-> currentVariantIndex,
     vdc |-> variantDisplayContent, sel |-> variantSelection,
     gen |-> generatingVariant, ld |-> loading, str |-> isStreaming,
     ctrl |-> variantAbortController, sess |-> session,
     edt |-> editingMessageIndex]

\* GET /api/sessions/:id : messages with versions ordered by version
Snapshot ==
    [content |-> chatMessage,
     versions |-> [m \in Msgs |-> SortByVersion(RowsOf(m))]]

\* const displayContent = variantDisplayContent.has(id) ? ...get(id) : m.content
Displayed(s, m) == IF MapHas(s.vdc, m) THEN s.vdc[m] ELSE s.msgs[m]

\* the action buttons of the last assistant message are rendered
ActionsShown(s) == ~s.ld /\ ~s.str

\* the variant navigation of message m is rendered
NavShown(s, m) ==
    /\ ActionsShown(s)
    /\ MapHas(s.mv, m) /\ Len(s.mv[m]) > 0
    /\ s.gen # m

\* the variant counter's validation during render: a pointer past the list is
\* set to the list length
Render(s) ==
    LET m == "m" IN
    IF NavShown(s, m) /\ MapGetOr(s.cvi, m, 0) > Len(s.mv[m])
    THEN [s EXCEPT !.cvi = MapSet(s.cvi, m, Len(s.mv[m]))]
    ELSE s

\* session.messages.forEach(msg => ...) of the session useEffect, for one msg
LoadVariantsFromSession(s, m) ==
    LET versions == s.sess.versions[m]
        variants == SelectSeq(versions, LAMBDA v : ~v.isActive)
        oldLen == Len(MapGetOr(s.mv, m, <<>>))
        hasIdx == MapHas(s.cvi, m)
        validSaved == /\ MapHas(s.sel, m)
                      /\ s.sel[m] >= 0 /\ s.sel[m] <= Len(variants)
        moved == hasIdx /\ s.cvi[m] = oldLen /\ Len(variants) > oldLen
        cvi2 == IF ~hasIdx
                THEN MapSet(s.cvi, m, IF validSaved THEN s.sel[m] ELSE 0)
                ELSE IF moved THEN MapSet(s.cvi, m, Len(variants)) ELSE s.cvi
        sel2 == IF moved THEN MapSet(s.sel, m, Len(variants)) ELSE s.sel
        vdc2 == IF MapHas(s.vdc, m) THEN s.vdc
                ELSE IF MapHas(sel2, m) /\ sel2[m] > 0 /\ sel2[m] <= Len(variants)
                THEN MapSet(s.vdc, m, variants[sel2[m]].content)
                ELSE MapSet(s.vdc, m, s.sess.content[m])
    IN IF Len(variants) = 0 THEN s
       ELSE [s EXCEPT !.mv = MapSet(s.mv, m, variants), !.cvi = cvi2,
                      !.sel = sel2, !.vdc = vdc2]

\* the session useEffect: skipped while streaming or generating, else the
\* messages and the variants are taken from the session data
SessionEffect(s) ==
    IF s.str \/ s.gen # "none" THEN s
    ELSE LoadVariantsFromSession(
            [s EXCEPT !.msgs = IF s.edt = "none" THEN s.sess.content ELSE @], "m")

\* the effect's dependencies [session, editingMessageIndex, isStreaming,
\* generatingVariant]
DepsChanged(s) ==
    \/ s.sess # session
    \/ s.edt # editingMessageIndex
    \/ s.gen # generatingVariant
    \/ s.str # isStreaming

\* a state update: render, effects of changed dependencies, render
Commit(s) ==
    LET r == Render(s)
    IN IF DepsChanged(s) THEN Render(SessionEffect(r)) ELSE r

SetPage(s) ==
    LET c == Commit(s) IN
    /\ messages' = c.msgs
    /\ messageVariants' = c.mv
    /\ currentVariantIndex' = c.cvi
    /\ variantDisplayContent' = c.vdc
    /\ variantSelection' = c.sel
    /\ generatingVariant' = c.gen
    /\ loading' = c.ld
    /\ isStreaming' = c.str
    /\ variantAbortController' = c.ctrl
    /\ session' = c.sess

\* ---- navigateVariant
\* a navigation that stops at both ends instead of wrapping (C2 fails with it)
NavNewIndexNoWrap(currentIndex, totalOptions, direction) ==
    IF direction = "prev"
    THEN Max(0, currentIndex - 1)
    ELSE Min(currentIndex + 1, totalOptions - 1)

\* the new pointer: prev/next with wraparound over [0, totalOptions - 1]
NavNewIndex(currentIndex, totalOptions, direction) ==
    LET stepped == IF direction = "prev"
                   THEN (IF currentIndex > 0 THEN currentIndex - 1
                         ELSE totalOptions - 1)
                   ELSE (IF currentIndex < totalOptions - 1 THEN currentIndex + 1
                         ELSE 0)
    IN Max(0, Min(stepped, totalOptions - 1))

navigateVariant(s, m, direction) ==
    LET variants == MapGetOr(s.mv, m, <<>>)
        totalOptions == Len(variants) + 1
        currentIndex == MapGetOr(s.cvi, m, 0)
        newIndex == NavNewIndex(currentIndex, totalOptions, direction)
    IN IF totalOptions <= 1 THEN s
       ELSE [s EXCEPT
               !.cvi = MapSet(s.cvi, m, newIndex),
               !.sel = MapSet(s.sel, m, newIndex),
               !.vdc = IF newIndex = 0
                       THEN (IF MapHas(s.msgs, m)
                             THEN MapSet(s.vdc, m, s.msgs[m]) ELSE s.vdc)
                       ELSE MapSet(s.vdc, m, variants[newIndex].content)]

NavigateVariant(m, direction) ==
    /\ NavShown(Page, m)
    /\ SetPage(navigateVariant(Page, m, direction))
    /\ UNCHANGED <<dbVars, postVars, gv, chat, otherVars>>

\* ---- stopStreaming
RECURSIVE LastWithContent(_, _)
\* for (i = length - 1; i >= 0; i--) if (variants[i].content) ... : 1-based
\* index of the last variant with content, 0 when there is none
LastWithContent(variants, i) ==
    IF i = 0 THEN 0
    ELSE IF variants[i].content # EmptyText THEN i
    ELSE LastWithContent(variants, i - 1)

\* where stopStreaming switches to: [targetIndex, displayContent]
StopTarget(s, m) ==
    LET variants == MapGetOr(s.mv, m, <<>>)
        n == Len(variants)
        found == LastWithContent(variants, n)
    IN IF n > 0
       THEN (IF found > 0
             THEN [targetIndex |-> found, displayContent |-> variants[found].content]
             ELSE [targetIndex |-> n, displayContent |-> EmptyText])
       ELSE [targetIndex |-> 0,
             displayContent |-> IF MapHas(s.msgs, m) THEN s.msgs[m] ELSE EmptyText]

\* the variant part of stopStreaming (variantAbortController.current is set)
stopStreaming(s) ==
    LET m == s.gen
        t == StopTarget(s, m)
        switched == IF m # "none" /\ t.displayContent # EmptyText
                    THEN [s EXCEPT !.vdc = MapSet(s.vdc, m, t.displayContent),
                                   !.cvi = MapSet(s.cvi, m, t.targetIndex),
                                   !.sel = MapSet(s.sel, m, t.targetIndex)]
                    ELSE s
    IN [switched EXCEPT !.ctrl = 0, !.gen = "none"]

StopStreaming ==
    /\ isStreaming \/ generatingVariant # "none"
    /\ variantAbortController # 0
    /\ gv' = [gv EXCEPT ![variantAbortController].aborted = TRUE]
    /\ SetPage(stopStreaming(Page))
    /\ UNCHANGED <<dbVars, postVars, chat, otherVars>>

\* ---- generateVariant
IdleGv ==
    [pc |-> "idle", stream |-> FALSE, snapLen |-> 0, streamingContent |-> EmptyText,
     rd |-> 0, aborted |-> FALSE, abortPath |-> FALSE, tries |-> 0,
     outcome |-> "none",
     pre |-> [index |-> 0, display |-> EmptyText, list |-> <<>>]]

\* const placeholderVariant = { id: -1, content: '', version: newVariantIndex, ... }
Placeholder(m, newVariantIndex) ==
    [id |-> -1, messageId |-> m, content |-> EmptyText,
     version |-> newVariantIndex, isActive |-> FALSE]

\* await finalResponse.json() of a 404: { error: ... }, no id, no content
ErrorObject == NoRow

\* updated = [...existing]; updated[updated.length - 1] = newVariant
ReplaceLast(existing, newVariant) ==
    IF Len(existing) = 0 THEN existing
    ELSE [existing EXCEPT ![Len(existing)] = newVariant]

\* if (generatingVariant || loading || isStreaming) return;
\* setGeneratingVariant(messageId); await fetch('/api/settings')
GenerateVariant(g) ==
    /\ gv[g].pc = "idle"
    /\ \A h \in Gens : h < g => gv[h].pc # "idle"
    /\ ActionsShown(Page)
    /\ generatingVariant = "none" /\ ~loading /\ ~isStreaming
    /\ gv' = [gv EXCEPT ![g] =
                [IdleGv EXCEPT
                   !.pc = "settings",
                   !.snapLen = Len(MapGetOr(messageVariants, "m", <<>>)),
                   !.pre = [index |-> MapGetOr(currentVariantIndex, "m", 0),
                            display |-> Displayed(Page, "m"),
                            list |-> MapGetOr(messageVariants, "m", <<>>)]]]
    /\ SetPage([Page EXCEPT !.gen = "m"])
    /\ UNCHANGED <<dbVars, postVars, chat, otherVars>>

\* the placeholder is appended and pointed to, the display is blanked
insertPlaceholder(s, m, newVariantIndex) ==
    [s EXCEPT
       !.mv = MapSet(s.mv, m, Append(MapGetOr(s.mv, m, <<>>),
                                     Placeholder(m, newVariantIndex))),
       !.cvi = MapSet(s.cvi, m, newVariantIndex),
       !.sel = MapSet(s.sel, m, newVariantIndex),
       !.vdc = MapSet(s.vdc, m, EmptyText)]

\* settings arrive; placeholder; fetch(POST .../variants, {stream}) is issued
GvSettings(g) ==
    /\ gv[g].pc = "settings"
    /\ LET streamSetting == settingStream IN
          /\ gv' = [gv EXCEPT ![g].pc = "posting", ![g].stream = streamSetting]
          /\ post' = [post EXCEPT ![g] =
                        [IdlePost EXCEPT !.pc = "allocRead", !.gen = g,
                                         !.stream = streamSetting]]
          /\ SetPage([insertPlaceholder(Page, "m", gv[g].snapLen + 1) EXCEPT
                        !.ctrl = IF streamSetting THEN g ELSE @])
    /\ UNCHANGED <<dbVars, pipe, chat, otherVars>>

\* catch (error): the last entry is dropped, the pointer set to the new length
generateVariantCatch(s, m) ==
    LET existing == MapGetOr(s.mv, m, <<>>)
        updatedVariants == SubSeq(existing, 1, Len(existing) - 1)
    IN [s EXCEPT !.mv = MapSet(s.mv, m, updatedVariants),
                 !.cvi = MapSet(s.cvi, m, Max(0, Len(updatedVariants)))]

\* non-streaming: the placeholder becomes the returned row, which is displayed
generateVariantNonStream(s, m, newVariant) ==
    [s EXCEPT !.mv = MapSet(s.mv, m, ReplaceLast(MapGetOr(s.mv, m, <<>>), newVariant)),
              !.vdc = MapSet(s.vdc, m, newVariant.content)]

\* await fetch(POST) settles: rejected by the abort, not ok, or a response
GvResponse(g) ==
    /\ gv[g].pc = "posting"
    /\ gv[g].aborted \/ post[g].status # 0
    /\ LET failed == ~gv[g].aborted /\ post[g].status >= 400 IN
       IF gv[g].aborted \/ failed
       THEN /\ gv' = [gv EXCEPT ![g].pc = "mutateTimer",
                         ![g].outcome = IF failed THEN "failed" ELSE "abortedFetch"]
            /\ SetPage([generateVariantCatch(Page, "m") EXCEPT !.ctrl = 0])
       ELSE IF gv[g].stream
       THEN /\ gv' = [gv EXCEPT ![g].pc = "reading"]
            /\ SetPage(Page)
       ELSE /\ gv' = [gv EXCEPT ![g].pc = "mutateTimer", ![g].outcome = "handled"]
            /\ SetPage([generateVariantNonStream(Page, "m", post[g].body)
                          EXCEPT !.ctrl = 0])
    /\ UNCHANGED <<dbVars, postVars, chat, otherVars>>

\* one reader.read() of the client: AbortError, a data line, or the end
GvRead(g) ==
    /\ gv[g].pc = "reading"
    /\ LET f == gv[g] IN
       IF f.aborted
       THEN /\ gv' = [gv EXCEPT ![g].pc = "latest", ![g].abortPath = TRUE]
            /\ SetPage(Page)
       ELSE IF f.rd < Len(pipe[g])
       THEN LET line == pipe[g][f.rd + 1] IN
            IF line.t = "DONE"
            THEN /\ gv' = [gv EXCEPT ![g].pc = "latest", ![g].rd = f.rd + 1]
                 /\ SetPage(Page)
            ELSE IF line.t = "content"
            THEN /\ gv' = [gv EXCEPT ![g].rd = f.rd + 1,
                              ![g].streamingContent = Append(@, line.v)]
                 /\ SetPage([Page EXCEPT !.vdc =
                       MapSet(@, "m", Append(f.streamingContent, line.v))])
            ELSE /\ gv' = [gv EXCEPT ![g].rd = f.rd + 1]
                 /\ SetPage(Page)
       ELSE /\ post[g].pc = "done"
            /\ gv' = [gv EXCEPT ![g].pc = "latest"]
            /\ SetPage(Page)
    /\ UNCHANGED <<dbVars, postVars, chat, otherVars>>

\* GET .../variants/latest: findFirst by version desc, retried while nothing
\* is found; then the client puts the answer in the place of the last entry
\* (after an abort only when the answer is ok)
GvLatest(g) ==
    /\ gv[g].pc = "latest"
    /\ LET f == gv[g]
           rows == RowsOf("m")
           existing == MapGetOr(messageVariants, "m", <<>>)
       IN IF rows = {} /\ f.tries < maxRetries - 1
          THEN /\ gv' = [gv EXCEPT ![g].tries = f.tries + 1]
               /\ SetPage(Page)
          ELSE /\ gv' = [gv EXCEPT ![g].pc = "mutateTimer",
                            ![g].outcome = IF f.abortPath THEN "aborted"
                                           ELSE "handled"]
               /\ SetPage([Page EXCEPT
                     !.ctrl = 0,
                     !.mv = IF rows # {}
                            THEN MapSet(@, "m", ReplaceLast(existing, LatestRow(rows)))
                            ELSE IF f.abortPath THEN @
                            ELSE MapSet(@, "m", ReplaceLast(existing, ErrorObject))])
    /\ UNCHANGED <<dbVars, postVars, chat, otherVars>>

\* finally: setTimeout(async () => { await mutate(); ... }, 100)
GvMutate(g) ==
    /\ gv[g].pc = "mutateTimer"
    /\ gv' = [gv EXCEPT ![g].pc = "clearTimer"]
    /\ SetPage([Page EXCEPT !.sess = Snapshot])
    /\ UNCHANGED <<dbVars, postVars, chat, otherVars>>

\* setTimeout(() => setGeneratingVariant(null), 100)
GvClear(g) ==
    /\ gv[g].pc = "clearTimer"
    /\ gv' = [gv EXCEPT ![g].pc = "finished"]
    /\ SetPage([Page EXCEPT !.gen = "none"])
    /\ UNCHANGED <<dbVars, postVars, chat, otherVars>>

\* ---- handleSend / continueConversation
IdleChat ==
    [pc |-> "idle", kind |-> "none", hasVariants |-> FALSE, index |-> 0,
     selectedVariant |-> NoRow, activeVariant |-> NoRow, committed |-> FALSE]

\* commitDisplayedVariant sends PUT {variantId}: the pointer is not 0, the
\* pointed entry exists; a variantId that JSON drops or that is falsy gets 400
CommitSendsPut(c) ==
    /\ c.hasVariants
    /\ c.index # 0
    /\ c.selectedVariant # NoRow

\* the invocation, with the state its closure holds (messageVariants,
\* currentVariantIndex), up to the first request it awaits
ChatStart(kind) ==
    LET variants == MapGetOr(messageVariants, "m", <<>>)
        currentIndex == MapGetOr(currentVariantIndex, "m", 0)
        c == [IdleChat EXCEPT
                !.kind = kind,
                !.hasVariants = MapHas(messageVariants, "m"),
                !.index = currentIndex,
                !.selectedVariant =
                    IF currentIndex >= 1 /\ currentIndex <= Len(variants)
                    THEN variants[currentIndex] ELSE NoRow]
    IN [c EXCEPT !.pc = IF CommitSendsPut(c) /\ c.selectedVariant.id # 0
                        THEN "putMany"
                        ELSE "committed"]

\* handleSend(): Enter in the input box or the send button
HandleSend ==
    /\ chat.pc = "idle"
    /\ ~loading
    /\ chat' = ChatStart("send")
    /\ UNCHANGED <<dbVars, postVars, pageVars, gv, otherVars>>

\* continueConversation(): the continue button of the last assistant message
ContinueConversation ==
    /\ chat.pc = "idle"
    /\ ActionsShown(Page)
    /\ ~loading /\ ~isStreaming
    /\ chat' = ChatStart("continue")
    /\ UNCHANGED <<dbVars, postVars, pageVars, gv, otherVars>>

\* PUT: updateMany({where: {messageId}, data: {isActive: false}})
PutSetAllInactive(m) ==
    {[v EXCEPT !.isActive = IF v.messageId = m THEN FALSE ELSE @] : v \in messageVersion}

PutUpdateMany ==
    /\ chat.pc = "putMany"
    /\ messageVersion' = PutSetAllInactive("m")
    /\ chat' = [chat EXCEPT !.pc = "putOne"]
    /\ UNCHANGED <<chatMessage, nextRowId, settingStream, postVars, pageVars, gv, otherVars>>

\* a commit that also deletes the other rows of the message (C4 fails with it)
PutSetActiveDeleteOthers(variantId) ==
    {[v EXCEPT !.isActive = TRUE] : v \in {w \in messageVersion : w.id = variantId}}
       \cup {w \in messageVersion : w.messageId # "m"}

\* PUT: update({where: {id: variantId}, data: {isActive: true}}); a missing
\* row throws: 500, and commitDisplayedVariant catches 'Failed to commit'
PutSetActive(variantId) ==
    {[v EXCEPT !.isActive = IF v.id = variantId THEN TRUE ELSE @] : v \in messageVersion}

PutUpdate ==
    /\ chat.pc = "putOne"
    /\ LET variantId == chat.selectedVariant.id IN
       IF \E v \in messageVersion : v.id = variantId
       THEN /\ messageVersion' = PutSetActive(variantId)
            /\ chat' = [chat EXCEPT !.pc = "putMsg",
                           !.activeVariant =
                              CHOOSE v \in messageVersion' : v.id = variantId]
       ELSE /\ messageVersion' = messageVersion
            /\ chat' = [chat EXCEPT !.pc = "committed"]
    /\ UNCHANGED <<chatMessage, nextRowId, settingStream, postVars, pageVars, gv, otherVars>>

\* PUT: chatMessage.update({data: {content: activeVariant.content}}), 200; the
\* page then shows the committed content for the message
PutMessageContent(m, activeVariant) == [chatMessage EXCEPT ![m] = activeVariant.content]

PutMessage ==
    /\ chat.pc = "putMsg"
    /\ chatMessage' = PutMessageContent("m", chat.activeVariant)
    /\ chat' = [chat EXCEPT !.pc = "committed", !.committed = TRUE]
    /\ SetPage([Page EXCEPT !.msgs = MapSet(@, "m", chat.selectedVariant.content)])
    /\ UNCHANGED <<messageVersion, nextRowId, settingStream, postVars, gv, otherVars>>

\* what follows the commit loop: handleSend goes on to the chat request,
\* continueConversation to cleanupVariants of the messages that had variants
AfterCommit ==
    /\ chat.pc = "committed"
    /\ IF chat.kind = "continue" /\ chat.hasVariants
       THEN /\ chat' = [chat EXCEPT !.pc = "delete"]
            /\ SetPage(Page)
       ELSE /\ chat' = [chat EXCEPT !.pc = "settings"]
            /\ SetPage([Page EXCEPT !.ld = TRUE])
    /\ UNCHANGED <<dbVars, postVars, gv, otherVars>>

\* a DELETE that spares the active row (C5 fails with it)
DeleteInactiveRows(m) == {v \in messageVersion : v.messageId # m \/ v.isActive}

\* DELETE: deleteMany({where: {messageId}})
DeleteVariantRows(m) == {v \in messageVersion : v.messageId # m}

CleanupDelete ==
    /\ chat.pc = "delete"
    /\ messageVersion' = DeleteVariantRows("m")
    /\ chat' = [chat EXCEPT !.pc = "deleted"]
    /\ UNCHANGED <<chatMessage, nextRowId, settingStream, postVars, pageVars, gv, otherVars>>

\* cleanupVariants after the DELETE: the message leaves the three maps and
\* localStorage
cleanupVariants(s, m) ==
    [s EXCEPT !.mv = MapDelete(s.mv, m), !.cvi = MapDelete(s.cvi, m),
              !.vdc = MapDelete(s.vdc, m), !.sel = MapDelete(s.sel, m)]

CleanupClient ==
    /\ chat.pc = "deleted"
    /\ chat' = [chat EXCEPT !.pc = "settings"]
    /\ SetPage([cleanupVariants(Page, "m") EXCEPT !.ld = TRUE])
    /\ UNCHANGED <<dbVars, postVars, gv, otherVars>>

\* settings arrive, setIsStreaming(streamSetting), fetch('/api/chat') is issued
ChatRequest ==
    /\ chat.pc = "settings"
    /\ LET streamSetting == settingStream IN
          SetPage([Page EXCEPT !.str = streamSetting])
    /\ chat' = [chat EXCEPT !.pc = "issued"]
    /\ UNCHANGED <<dbVars, postVars, gv, otherVars>>

\* ------------------------------------------------------ message editing
\* a whitespace character in a text
Blank == -1

RECURSIVE TrimStart(_)
TrimStart(t) == IF t # <<>> /\ Head(t) = Blank THEN TrimStart(Tail(t)) ELSE t

RECURSIVE TrimEnd(_)
TrimEnd(t) ==
    IF t # <<>> /\ t[Len(t)] = Blank THEN TrimEnd(SubSeq(t, 1, Len(t) - 1)) ELSE t

\* String.prototype.trim()
Trim(t) == TrimEnd(TrimStart(t))

\* what the user may have typed in the edit box when saving
EditInputs == {<<Blank, 7, Blank>>, <<7, Blank, 7>>, <<Blank>>}

IdleEdit ==
    [pc |-> "idle", trimmedContent |-> EmptyText, currentIndex |-> 0,
     variantToEdit |-> NoRow, messageToEdit |-> EmptyText,
     preservedVariants |-> EmptyMap, preservedVariantDisplay |-> EmptyMap,
     preservedCurrentVariant |-> EmptyMap, status |-> 0]

\* startEditingMessage(index) of the last assistant message
StartEdit ==
    /\ edit.pc = "idle"
    /\ ~loading /\ ~isStreaming
    /\ editingMessageIndex' = "m"
    /\ edit' = [edit EXCEPT !.pc = "editing"]
    /\ SetPage([Page EXCEPT !.edt = "m"])
    /\ UNCHANGED <<dbVars, postVars, gv, chat, notEdit>>

\* isEditingVariant: the message has a pointer and it is not 0
isEditingVariant(s, m) == MapHas(s.cvi, m) /\ s.cvi[m] > 0

\* saveEditedMessage up to its first await: a PUT of the pointed variant, a
\* PUT of the message, or nothing when the pointed entry does not exist
SaveEdit ==
    /\ edit.pc = "editing"
    /\ \E editingContent \in EditInputs :
        LET trimmedContent == Trim(editingContent)
            currentIndex == MapGetOr(currentVariantIndex, "m", 0)
            variants == MapGetOr(messageVariants, "m", <<>>)
            e == [edit EXCEPT !.trimmedContent = trimmedContent,
                              !.currentIndex = currentIndex,
                              !.messageToEdit = messages["m"]]
        IN /\ trimmedContent # EmptyText
           /\ IF isEditingVariant(Page, "m")
              THEN IF currentIndex <= Len(variants)
                   THEN /\ edit' = [e EXCEPT !.pc = "putVariant",
                                             !.variantToEdit = variants[currentIndex]]
                        /\ editingMessageIndex' = editingMessageIndex
                        /\ SetPage(Page)
                   ELSE /\ edit' = [e EXCEPT !.pc = "done"]
                        /\ editingMessageIndex' = "none"
                        /\ SetPage([Page EXCEPT !.edt = "none"])
              ELSE /\ edit' = [e EXCEPT !.pc = "putMessage",
                                  !.preservedVariants = messageVariants,
                                  !.preservedVariantDisplay = variantDisplayContent,
                                  !.preservedCurrentVariant = currentVariantIndex]
                   /\ editingMessageIndex' = editingMessageIndex
                   /\ SetPage([Page EXCEPT
                         !.msgs = MapSet(@, "m", trimmedContent),
                         !.vdc = IF MapHas(@, "m") /\ MapHas(currentVariantIndex, "m")
                                    /\ currentIndex = 0
                                 THEN MapSet(@, "m", trimmedContent) ELSE @])
    /\ UNCHANGED <<dbVars, postVars, gv, chat, notEdit>>

\* PUT .../variants {variantId, content}: update({where: {id: variantId},
\* data: {content: content.trim()}}); 400 without variantId, 500 without row
PutEditVariant(variantId, content) ==
    {[v EXCEPT !.content = IF v.id = variantId THEN Trim(content) ELSE @] :
        v \in messageVersion}

\* updatedVariants[currentIndex - 1] = {...variantToEdit, content}
SetEditedVariant(list, currentIndex, variant) ==
    IF currentIndex <= Len(list) THEN [list EXCEPT ![currentIndex] = variant]
    ELSE IF currentIndex = Len(list) + 1 THEN Append(list, variant)
    ELSE list

\* the variant PUT and what saveEditedMessage does with its answer
EditPutVariant ==
    /\ edit.pc = "putVariant"
    /\ LET variantId == edit.variantToEdit.id
           found == variantId # 0 /\ \E v \in messageVersion : v.id = variantId
       IN IF found
          THEN /\ messageVersion' = PutEditVariant(variantId, edit.trimmedContent)
               /\ edit' = [edit EXCEPT !.pc = "refreshTimer", !.status = 200]
               /\ editingMessageIndex' = "none"
               /\ SetPage([Page EXCEPT
                     !.edt = "none",
                     !.mv = MapSet(@, "m",
                              SetEditedVariant(MapGetOr(@, "m", <<>>), edit.currentIndex,
                                 [edit.variantToEdit EXCEPT
                                    !.content = edit.trimmedContent])),
                     !.vdc = MapSet(@, "m", edit.trimmedContent)])
          ELSE /\ messageVersion' = messageVersion
               /\ edit' = [edit EXCEPT !.pc = "failed",
                              !.status = IF variantId = 0 THEN 400 ELSE 500]
               /\ editingMessageIndex' = editingMessageIndex
               /\ SetPage(Page)
    /\ UNCHANGED <<chatMessage, nextRowId, settingStream, postVars, gv, chat, notEdit>>

\* setTimeout(..., 100): GET .../variants, the list is replaced by the answer
EditRefresh ==
    /\ edit.pc = "refreshTimer"
    /\ edit' = [edit EXCEPT !.pc = "done"]
    /\ SetPage([Page EXCEPT !.mv = MapSet(@, "m", SortByVersion(RowsOf("m")))])
    /\ UNCHANGED <<dbVars, postVars, gv, chat, editingMessageIndex, notEdit>>

\* PUT /api/messages/:id {content}: chatMessage.update({data: {content:
\* content.trim()}})
PutEditMessage(m, content) == [chatMessage EXCEPT ![m] = Trim(content)]

\* the message PUT, then mutateWithVariantPreservation: await mutate()
EditPutMessage ==
    /\ edit.pc = "putMessage"
    /\ chatMessage' = PutEditMessage("m", edit.trimmedContent)
    /\ edit' = [edit EXCEPT !.pc = "restoreTimer", !.status = 200]
    /\ editingMessageIndex' = "none"
    /\ SetPage([Page EXCEPT !.edt = "none",
                            !.sess = [content |-> chatMessage',
                                      versions |-> Snapshot.versions]])
    /\ UNCHANGED <<messageVersion, nextRowId, settingStream, postVars, gv, chat,
                   notEdit>>

\* preserved.forEach((x, messageId) => if (preservedVariants.has(messageId)) ...)
RestorePreserved(map, preserved, preservedVariants) ==
    [x \in DOMAIN map \cup (DOMAIN preserved \cap DOMAIN preservedVariants) |->
        IF x \in DOMAIN preserved /\ x \in DOMAIN preservedVariants
        THEN preserved[x] ELSE map[x]]

\* setTimeout(..., 20) of mutateWithVariantPreservation
EditRestore ==
    /\ edit.pc = "restoreTimer"
    /\ edit' = [edit EXCEPT !.pc = "done"]
    /\ SetPage([Page EXCEPT
          !.vdc = RestorePreserved(@, edit.preservedVariantDisplay,
                                   edit.preservedVariants),
          !.cvi = RestorePreserved(@, edit.preservedCurrentVariant,
                                   edit.preservedVariants)])
    /\ UNCHANGED <<dbVars, postVars, gv, chat, editingMessageIndex, notEdit>>

\* ------------------------------------- concurrent variant POSTs and DELETEs
\* a POST .../variants handler, reduced to what touches MessageVersion
IdleRequest ==
    [pc |-> "idle", messageId |-> "m", nextVersion |-> 1, retryCount |-> 0,
     status |-> 0, created |-> 0, llmCalled |-> FALSE, assistantText |-> EmptyText,
     canWrite |-> TRUE, sse |-> "none"]

\* what the allocation specification leaves alone
notAlloc ==
    <<chatMessage, settingStream, postVars, pageVars, gv, chat, editVars, chatEpVars,
      characterVars, personaVars, del, auth, restVars>>

\* a client sends POST .../variants; the message exists and is an assistant's
RequestStart(r) ==
    /\ requests[r].pc \in {"idle", "done"}
    /\ posted < MaxPosts
    /\ requests' = [requests EXCEPT ![r] = [IdleRequest EXCEPT !.pc = "allocRead"]]
    /\ posted' = posted + 1
    /\ UNCHANGED <<messageVersion, nextRowId, deleted, notAlloc>>

RequestAllocRead(r) ==
    /\ requests[r].pc = "allocRead"
    /\ requests' = [requests EXCEPT ![r] = AllocReadOf(requests[r])]
    /\ UNCHANGED <<messageVersion, nextRowId, posted, deleted, notAlloc>>

RequestAllocCheck(r) ==
    /\ requests[r].pc = "allocCheck"
    /\ requests' = [requests EXCEPT ![r] = AllocCheckOf(requests[r])]
    /\ UNCHANGED <<messageVersion, nextRowId, posted, deleted, notAlloc>>

\* fetch(deepseek) and the reading of its answer: a text to save, or nothing
\* to save (error answer, no content, stream without [DONE], client gone);
\* a streaming request saves only when the response is still writable
RequestFetch(r) ==
    /\ requests[r].pc = "fetch"
    /\ \E save \in BOOLEAN :
          /\ save => (~settingStream \/ requests[r].canWrite)
          /\ requests' = [requests EXCEPT ![r] =
                [@ EXCEPT !.llmCalled = TRUE,
                          !.pc = IF save THEN "saving" ELSE "done",
                          !.assistantText = IF save THEN GenText(r, 1) ELSE @]]
    /\ UNCHANGED <<messageVersion, nextRowId, posted, deleted, notAlloc>>

\* the client of a request goes away while the handler runs
RequestSocketClose(r) ==
    /\ requests[r].pc \notin {"idle", "done"}
    /\ requests[r].canWrite
    /\ requests' = [requests EXCEPT ![r].canWrite = FALSE]
    /\ UNCHANGED <<messageVersion, nextRowId, posted, deleted, notAlloc>>

\* prisma.messageVersion.create fails with P2002 when (messageId, version) exists
CreateConflict(p) == existingVersion(p)

\* the catch of P2002: 409 without streaming, a last SSE line with streaming
ReportConflict(p) ==
    IF settingStream
    THEN [p EXCEPT !.pc = "done",
                   !.sse = IF p.canWrite THEN "race_condition" ELSE @]
    ELSE [p EXCEPT !.pc = "done", !.status = 409]

RequestSave(r) ==
    /\ requests[r].pc = "saving"
    /\ LET p == requests[r]
           row == NewRow(nextRowId, p.messageId, p.assistantText, p.nextVersion)
       IN IF CreateConflict(p)
          THEN /\ requests' = [requests EXCEPT ![r] = ReportConflict(p)]
               /\ UNCHANGED <<messageVersion, nextRowId>>
          ELSE /\ messageVersion' = messageVersion \cup {row}
               /\ nextRowId' = nextRowId + 1
               /\ requests' = [requests EXCEPT ![r] =
                      [p EXCEPT !.pc = "done", !.created = row.id,
                                !.status = IF settingStream THEN @ ELSE 201,
                                !.sse = IF settingStream /\ p.canWrite
                                        THEN "variant_saved" ELSE @]]
    /\ UNCHANGED <<posted, deleted, notAlloc>>

\* DELETE .../variants: deleteMany({where: {messageId}})
DeleteRequest ==
    /\ deleted < MaxDeletes
    /\ messageVersion' = DeleteVariantRows("m")
    /\ deleted' = deleted + 1
    /\ UNCHANGED <<nextRowId, requests, posted, notAlloc>>

\* ------------------------------------------------------- POST /api/chat
\* the session before the request: two user messages and their answers
InitSession ==
    <<[role |-> "user", content |-> <<8>>], [role |-> "assistant", content |-> <<9>>],
      [role |-> "user", content |-> <<10>>], [role |-> "assistant", content |-> <<11>>]>>

\* the '\n\n' saveAssistantMessage joins with
Separator == <<Blank, Blank>>

\* who awaits a saveAssistantMessage: the handler itself, the 'close' listener
\* and the 'aborted' listener
Savers == {"main", "close", "aborted"}

IdleEp ==
    [pc |-> "idle", stream |-> FALSE, assistantText |-> EmptyText,
     streamCompleted |-> FALSE, messageSaved |-> FALSE,
     clientDisconnected |-> FALSE, resDestroyed |-> FALSE, readFailed |-> FALSE,
     abortedEmitted |-> FALSE, closeEmitted |-> FALSE, ended |-> FALSE]

IdleUpstream == [state |-> "idle", buffer |-> <<>>, deltas |-> 0, done |-> FALSE]

IdleSave ==
    [pc |-> "none", content |-> EmptyText, lastId |-> 0, lastRole |-> "none",
     lastContent |-> EmptyText]

\* what the chat endpoint leaves alone
notChatEp ==
    <<dbVars, postVars, pageVars, gv, chat, editVars, allocVars, characterVars,
      personaVars, del, auth, restVars>>

\* the handler up to the upstream request: the user message is stored unless
\* the request is a continue or a retry
EpStart ==
    /\ ep.pc = "idle"
    /\ \E persistUser \in BOOLEAN, stream \in BOOLEAN :
          /\ ep' = [ep EXCEPT !.pc = "fetch", !.stream = stream]
          /\ sessionMessages' =
                IF persistUser
                THEN Append(sessionMessages, [role |-> "user", content |-> <<8>>])
                ELSE sessionMessages
    /\ UNCHANGED <<upstream, saves, notChatEp>>

\* a saveAssistantMessage(content) is called by w
StartSave(w, content) == [saves EXCEPT ![w] = [IdleSave EXCEPT !.pc = "find",
                                                         !.content = content]]

\* canWriteToResponse()
EpCanWrite(e) == ~e.clientDisconnected /\ ~e.resDestroyed

\* savePartialMessage never saves (C15 fails with it)
SavePartialNever(e) == FALSE

\* savePartialMessage: if (!messageSaved && assistantText.trim())
SavePartialCondition(e) == ~e.messageSaved /\ Trim(e.assistantText) # EmptyText

\* if (canWriteToResponse()) res.end()
EpEnd(e) == [e EXCEPT !.pc = "done", !.ended = EpCanWrite(e)]

\* await fetch(DEEPSEEK_URL): non-streaming answers are saved and returned,
\* streaming ones start the relay with the listeners attached
EpFetch ==
    /\ ep.pc = "fetch"
    /\ IF ep.stream
       THEN /\ ep' = [ep EXCEPT !.pc = "reading"]
            /\ upstream' = [upstream EXCEPT !.state = "open"]
            /\ saves' = saves
       ELSE \E content \in {EmptyText, <<1>>} :
               /\ upstream' = [upstream EXCEPT !.state = "ended"]
               /\ IF content # EmptyText
                  THEN /\ ep' = [ep EXCEPT !.pc = "awaitSave"]
                       /\ saves' = StartSave("main", content)
                  ELSE /\ ep' = [ep EXCEPT !.pc = "done", !.ended = TRUE]
                       /\ saves' = saves
    /\ UNCHANGED <<sessionMessages, notChatEp>>

\* chunks the upstream API may send: "D" a content delta, "B" a delta of
\* whitespace only
EpChunks == {<<"D">>, <<"B">>, <<"D", "DONE">>, <<"DONE">>}
EpDeltasIn(lines) == Cardinality({i \in 1..Len(lines) : lines[i] # "DONE"})

\* the upstream API sends a chunk; [DONE] is the last line it sends
UpstreamChunk ==
    /\ ep.pc = "reading" /\ upstream.state = "open" /\ ~upstream.done
    /\ \E lines \in EpChunks :
          /\ upstream.deltas + EpDeltasIn(lines) <= MaxEpDeltas
          /\ upstream' = [upstream EXCEPT !.buffer = Append(@, lines),
                                          !.deltas = @ + EpDeltasIn(lines),
                                          !.done = HasDoneLine(lines)]
    /\ UNCHANGED <<sessionMessages, ep, saves, notChatEp>>

\* the upstream API ends the stream, or the connection to it breaks
UpstreamEnd ==
    /\ ep.pc = "reading" /\ upstream.state = "open"
    /\ \E how \in {"ended", "failed"} : upstream' = [upstream EXCEPT !.state = how]
    /\ UNCHANGED <<sessionMessages, ep, saves, notChatEp>>

RECURSIVE EpProcessLines(_, _)
\* for (const line of lines): [DONE] leaves the for loop, a delta is
\* accumulated and relayed
EpProcessLines(e, lines) ==
    IF lines = <<>> \/ Head(lines) = "DONE" THEN e
    ELSE EpProcessLines(
            [e EXCEPT !.assistantText =
                         Append(@, IF Head(lines) = "B" THEN Blank ELSE 1)],
            Tail(lines))

\* after the while loop: [handler, save started or not]
EpAfterLoop(e) ==
    LET e1 == [e EXCEPT !.streamCompleted = ~e.clientDisconnected] IN
    IF ~e1.messageSaved /\ ~e1.clientDisconnected /\ Trim(e1.assistantText) # EmptyText
    THEN [e |-> [e1 EXCEPT !.pc = "awaitSave"], save |-> TRUE]
    ELSE IF e1.clientDisconnected /\ ~e1.messageSaved /\ SavePartialCondition(e1)
    THEN [e |-> [e1 EXCEPT !.pc = "awaitSave"], save |-> TRUE]
    ELSE [e |-> EpEnd(e1), save |-> FALSE]

\* catch (error): if (!streamCompleted && !messageSaved) await savePartialMessage()
EpCatch(e) ==
    LET e1 == [e EXCEPT !.readFailed = TRUE] IN
    IF ~e1.streamCompleted /\ ~e1.messageSaved /\ SavePartialCondition(e1)
    THEN [e |-> [e1 EXCEPT !.pc = "awaitSave"], save |-> TRUE]
    ELSE [e |-> EpEnd(e1), save |-> FALSE]

\* await reader.read() resolves or rejects, and the handler runs to its next await
EpRead ==
    /\ ep.pc = "reading"
    /\ upstream.buffer # <<>> \/ upstream.state \in {"ended", "failed"}
    /\ LET r == IF upstream.buffer # <<>>
                THEN IF ep.clientDisconnected \/ ~EpCanWrite(ep)
                     THEN EpAfterLoop(ep)
                     ELSE [e |-> EpProcessLines(ep, Head(upstream.buffer)),
                           save |-> FALSE]
                ELSE IF upstream.state = "ended" THEN EpAfterLoop(ep)
                ELSE EpCatch(ep)
       IN /\ ep' = r.e
          /\ saves' = IF r.save THEN StartSave("main", ep.assistantText) ELSE saves
          /\ upstream' = [upstream EXCEPT
                             !.buffer = IF @ # <<>> THEN Tail(@) ELSE @]
    /\ UNCHANGED <<sessionMessages, notChatEp>>

\* streamingAbortController.abort(): the client's connection is gone
EpSocketClose ==
    /\ ep.pc \in {"fetch", "reading", "awaitSave"}
    /\ ~ep.resDestroyed
    /\ ep' = [ep EXCEPT !.resDestroyed = TRUE]
    /\ UNCHANGED <<sessionMessages, upstream, saves, notChatEp>>

\* req.on('close') and req.on('aborted') are attached
EpListening(e) == e.stream /\ e.pc \in {"reading", "awaitSave", "done"}

\* the listener of w: clientDisconnected = true; if (!streamCompleted) await
\* savePartialMessage()
EpListener(w) ==
    /\ ep' = [ep EXCEPT !.clientDisconnected = @ \/ EpListening(ep),
                        !.closeEmitted = @ \/ w = "close",
                        !.abortedEmitted = @ \/ w = "aborted"]
    /\ saves' = IF EpListening(ep) /\ ~ep.streamCompleted /\ SavePartialCondition(ep)
                THEN StartSave(w, ep.assistantText) ELSE saves

\* 'aborted' is emitted, before 'close'
EpOnAborted ==
    /\ ep.resDestroyed /\ ~ep.abortedEmitted /\ ~ep.closeEmitted
    /\ EpListener("aborted")
    /\ UNCHANGED <<sessionMessages, upstream, notChatEp>>

\* 'close' is emitted
EpOnClose ==
    /\ ep.resDestroyed /\ ~ep.closeEmitted
    /\ EpListener("close")
    /\ UNCHANGED <<sessionMessages, upstream, notChatEp>>

\* saveAssistantMessage: lastMessage = findFirst({orderBy: {createdAt: 'desc'}})
SaveFind(w) ==
    /\ saves[w].pc = "find"
    /\ LET n == Len(sessionMessages) IN
       saves' = [saves EXCEPT ![w].pc = "write",
                    ![w].lastId = n,
                    ![w].lastRole = IF n = 0 THEN "none" ELSE sessionMessages[n].role,
                    ![w].lastContent =
                        IF n = 0 THEN EmptyText ELSE sessionMessages[n].content]
    /\ UNCHANGED <<sessionMessages, ep, upstream, notChatEp>>

\* saveAssistantMessage: append to the assistant message found, or create one
SaveWrite(w) ==
    /\ saves[w].pc = "write"
    /\ LET sv == saves[w] IN
       sessionMessages' =
          IF sv.lastRole = "assistant"
          THEN [sessionMessages EXCEPT ![sv.lastId].content =
                                           sv.lastContent \o Separator \o sv.content]
          ELSE Append(sessionMessages, [role |-> "assistant", content |-> sv.content])
    /\ saves' = [saves EXCEPT ![w].pc = "update"]
    /\ UNCHANGED <<ep, upstream, notChatEp>>

\* saveAssistantMessage returns to its caller: messageSaved = true, and the
\* handler, when it is the caller, ends the response
SaveReturn(w) ==
    /\ saves[w].pc = "update"
    /\ saves' = [saves EXCEPT ![w].pc = "done"]
    /\ ep' = IF w = "main"
             THEN IF ep.stream THEN EpEnd([ep EXCEPT !.messageSaved = TRUE])
                  ELSE [ep EXCEPT !.pc = "done", !.ended = TRUE]
             ELSE [ep EXCEPT !.messageSaved = TRUE]
    /\ UNCHANGED <<sessionMessages, upstream, notChatEp>>

\* -------------------------------------------------- POST /api/characters
CharacterRequests == 1..MaxCharacterPosts

\* a column without value, and a body field that was not sent
Null == "null"
Undefined == "undefined"

\* what a request body may hold: name, profileName
NameInputs == {Undefined, "", "a"}
ProfileNameInputs == {Undefined, "", "p"}

IdleCharacterPost ==
    [pc |-> "idle", name |-> Undefined, profileName |-> Undefined, status |-> 0,
     created |-> 0]

\* what the characters endpoint leaves alone
notCharacter ==
    <<dbVars, postVars, pageVars, gv, chat, editVars, allocVars, chatEpVars, personaVars,
      del, auth, restVars>>

\* JavaScript truthiness of a body field
Truthy(x) == x \notin {Undefined, Null, ""}

\* ...(profileName && { profileName }): the column is set only by a truthy value
ProfileNameColumn(profileName) == IF Truthy(profileName) THEN profileName ELSE Null

\* the unique index on (name, profileName): a row collides with a row of the
\* same name and the same profileName; NULL is equal to nothing
CharacterConflict(name, profileName) ==
    \E c \in character :
        c.name = name /\ c.profileName = profileName /\ profileName # Null

\* a request arrives; the handler reads the body and validates it
CharacterPostStart(r) ==
    /\ characterPosts[r].pc = "idle"
    /\ \E name \in NameInputs, profileName \in ProfileNameInputs :
          characterPosts' = [characterPosts EXCEPT ![r] =
             IF ~Truthy(name)
             THEN [@ EXCEPT !.pc = "done", !.name = name,
                            !.profileName = profileName, !.status = 400]
             ELSE [@ EXCEPT !.pc = "create", !.name = name,
                            !.profileName = profileName]]
    /\ UNCHANGED <<character, notCharacter>>

\* await prisma.character.create: 201 with the row, or P2002 turned into 400
CharacterPostCreate(r) ==
    /\ characterPosts[r].pc = "create"
    /\ LET p == characterPosts[r]
           column == ProfileNameColumn(p.profileName)
           id == Cardinality(character) + 1
       IN IF CharacterConflict(p.name, column)
          THEN /\ character' = character
               /\ characterPosts' = [characterPosts EXCEPT ![r].pc = "done",
                                                           ![r].status = 400]
          ELSE /\ character' = character \cup
                     {[id |-> id, name |-> p.name, profileName |-> column]}
               /\ characterPosts' = [characterPosts EXCEPT ![r].pc = "done",
                                        ![r].status = 201, ![r].created = id]
    /\ UNCHANGED notCharacter

\* ----------------------------------------------- DELETE /api/personas/:id
\* two personas with one session each; every session starts with one message
InitChatSessions == {[id |-> 1, personaId |-> 1], [id |-> 2, personaId |-> 2]}

IdlePersonaDelete ==
    [pc |-> "idle", personaId |-> 0, status |-> 0, served |-> 0, added |-> 0,
     cascaded |-> FALSE]

\* what the personas endpoint leaves alone
notPersona ==
    <<dbVars, postVars, pageVars, gv, chat, editVars, allocVars, chatEpVars,
      characterVars, del, auth, restVars>>

\* where: { personaId }
SessionsOf(personaId) == {s \in chatSession : s.personaId = personaId}

\* where: { session: { personaId } }
MessagesOf(personaId) ==
    {m \in sessionMessage : \E s \in SessionsOf(personaId) : s.id = m.sessionId}

\* what the database may do with rows that reference a row being deleted:
\* refuse the deletion, or delete them as well
ForeignKeyActions == {"restrict", "cascade"}

PersonaDeleteStart ==
    /\ personaDelete.pc \in {"idle", "done"}
    /\ personaDelete.served < MaxPersonaDeletes
    /\ \E id \in {1, 2} :
          personaDelete' = [personaDelete EXCEPT !.pc = "messages", !.personaId = id,
                               !.status = 0, !.served = @ + 1, !.cascaded = FALSE]
    /\ UNCHANGED <<persona, chatSession, sessionMessage, notPersona>>

\* await prisma.chatMessage.deleteMany({ where: { session: { personaId } } })
PersonaDeleteMessages ==
    /\ personaDelete.pc = "messages"
    /\ sessionMessage' = sessionMessage \ MessagesOf(personaDelete.personaId)
    /\ personaDelete' = [personaDelete EXCEPT !.pc = "sessions"]
    /\ UNCHANGED <<persona, chatSession, notPersona>>

\* await prisma.chatSession.deleteMany({ where: { personaId } }); a message
\* created since the first step still references its session
PersonaDeleteSessions ==
    /\ personaDelete.pc = "sessions"
    /\ LET id == personaDelete.personaId IN
       \E fk \in ForeignKeyActions :
          IF MessagesOf(id) # {} /\ fk = "restrict"
          THEN /\ personaDelete' = [personaDelete EXCEPT !.pc = "done", !.status = 500]
               /\ UNCHANGED <<chatSession, sessionMessage>>
          ELSE /\ personaDelete' = [personaDelete EXCEPT !.pc = "persona",
                                       !.cascaded = MessagesOf(id) # {}]
               /\ chatSession' = chatSession \ SessionsOf(id)
               /\ sessionMessage' = sessionMessage \ MessagesOf(id)
    /\ UNCHANGED <<persona, notPersona>>

\* a persona.delete that removes nothing (C17 fails with it)
PersonaDeleteNothing(id) == persona

\* prisma.persona.delete({ where: { id: personaId } })
PersonaDeleteRow(id) == persona \ {id}

\* await prisma.persona.delete(...); return res.status(204).end()
PersonaDeletePersona ==
    /\ personaDelete.pc = "persona"
    /\ LET id == personaDelete.personaId IN
       \E fk \in ForeignKeyActions :
          IF id \notin persona \/ (SessionsOf(id) # {} /\ fk = "restrict")
          THEN /\ personaDelete' = [personaDelete EXCEPT !.pc = "done", !.status = 500]
               /\ UNCHANGED <<persona, chatSession, sessionMessage>>
          ELSE /\ personaDelete' = [personaDelete EXCEPT !.pc = "done", !.status = 204]
               /\ persona' = PersonaDeleteRow(id)
               /\ chatSession' = chatSession \ SessionsOf(id)
               /\ sessionMessage' = sessionMessage \ MessagesOf(id)
    /\ UNCHANGED notPersona

\* the chat endpoint stores a message of a session: chatMessage.create({data:
\* {sessionId, ...}}), refused when the session does not exist
AddSessionMessage ==
    /\ personaDelete.added < MaxAdded
    /\ \E s \in chatSession :
          sessionMessage' = sessionMessage \cup
              {[id |-> Cardinality(InitChatSessions) + personaDelete.added + 1,
                sessionId |-> s.id]}
    /\ personaDelete' = [personaDelete EXCEPT !.added = @ + 1]
    /\ UNCHANGED <<persona, chatSession, notPersona>>

\* ------------------------------- message deletion and PUT /api/sessions/:id
\* the page's message list (the session as loaded), the deletion in progress
\* and the handler of its PUT
IdleDelete ==
    [pc |-> "idle", messages |-> InitSession, before |-> <<>>, index |-> 0,
     payload |-> <<>>, i |-> 0, rows |-> {}, now |-> 0, status |-> 0]

\* what the deletion leaves alone
notDelete ==
    <<dbVars, postVars, pageVars, gv, chat, editVars, allocVars, upstream, ep, saves,
      characterVars, personaVars, auth, restVars>>

\* confirmDeleteMessage of the user message at (0-based) index: the list is cut
\* and sent
ConfirmDelete ==
    /\ del.pc = "idle"
    /\ ~loading /\ ~isStreaming
    /\ \E index \in 0..(Len(del.messages) - 1) :
          /\ del.messages[index + 1].role = "user"
          /\ LET updatedMessages == SubSeq(del.messages, 1, index) IN
             del' = [del EXCEPT !.pc = "put", !.before = del.messages, !.index = index,
                                !.messages = updatedMessages,
                                !.payload = updatedMessages]
    /\ UNCHANGED <<sessionMessages, notDelete>>

\* the sequences that list rows by createdAt ascending
OrderedByCreatedAt(rows) ==
    {q \in [1..Cardinality(rows) -> rows] :
        /\ \A a, b \in 1..Cardinality(rows) : a < b => q[a].createdAt <= q[b].createdAt
        /\ \A a, b \in 1..Cardinality(rows) : a # b => q[a] # q[b]}

\* a creation time that ignores the position in the list (C18 fails with it)
CreatedAtNow(now, i) == now

\* createdAt: new Date(Date.now() + i)
CreatedAt(now, i) == now + i

\* await prisma.chatMessage.deleteMany({ where: { sessionId } })
SessionPutDelete ==
    /\ del.pc = "put"
    /\ \E ok \in BOOLEAN :
          IF ok
          THEN /\ sessionMessages' = <<>>
               /\ del' = [del EXCEPT !.pc = "create", !.i = 0, !.rows = {}, !.now = 0]
          ELSE /\ sessionMessages' = sessionMessages
               /\ del' = [del EXCEPT !.pc = "respond", !.status = 500]
    /\ UNCHANGED notDelete

\* one turn of the for loop: await prisma.chatMessage.create(...); after the
\* last one the handler answers 200
SessionPutCreate ==
    /\ del.pc = "create"
    /\ IF del.i = Len(del.payload)
       THEN /\ del' = [del EXCEPT !.pc = "respond", !.status = 200]
            /\ sessionMessages' = sessionMessages
       ELSE \E ok \in BOOLEAN, tick \in 0..1 :
               /\ del.now + tick <= MaxClock
               /\ IF ok
                  THEN LET message == del.payload[del.i + 1]
                           rows == del.rows \cup
                                     {[i |-> del.i, role |-> message.role,
                                       content |-> message.content,
                                       createdAt |-> CreatedAt(del.now + tick, del.i)]}
                       IN /\ del' = [del EXCEPT !.i = @ + 1, !.rows = rows,
                                                !.now = @ + tick]
                          /\ \E q \in OrderedByCreatedAt(rows) :
                                sessionMessages' =
                                   [k \in 1..Len(q) |->
                                       [role |-> q[k].role, content |-> q[k].content]]
                  ELSE /\ del' = [del EXCEPT !.pc = "respond", !.status = 500]
                       /\ sessionMessages' = sessionMessages
    /\ UNCHANGED notDelete

\* the answer reaches confirmDeleteMessage: reload the session, or put the
\* list back
DeleteResponse ==
    /\ del.pc = "respond"
    /\ del' = [del EXCEPT !.pc = "done",
                          !.messages = IF del.status = 200 THEN sessionMessages
                                       ELSE del.before]
    /\ UNCHANGED <<sessionMessages, notDelete>>

\* ------------------------------------------------------------------ auth
\* the modules that hold a JWT_SECRET of their own: login endpoint, verify
\* endpoint, lib/auth
AuthModules == {"login", "verify", "lib"}

\* nothing is loaded, no token is issued, nothing was verified
IdleAuth ==
    [env |-> "unknown", secret |-> [m \in AuthModules |-> "none"], now |-> 0,
     token |-> [secret |-> "none", exp |-> 0], checkedBy |-> "none", valid |-> FALSE,
     status |-> 0]

\* what the auth endpoints leave alone
notAuth ==
    <<dbVars, postVars, pageVars, gv, chat, editVars, allocVars, chatEpVars,
      characterVars, personaVars, del, restVars>>

\* the server starts with JWT_SECRET set or not set
AuthStart ==
    /\ auth.env = "unknown"
    /\ \E env \in {"unset", "configured"} : auth' = [auth EXCEPT !.env = env]
    /\ UNCHANGED notAuth

\* process.env.JWT_SECRET || crypto.randomBytes(64).toString('hex'): the values
\* a module may get when it is loaded
SecretsOf(env) == IF env = "configured" THEN {"configured"} ELSE {"random1", "random2"}

\* a module is loaded, at the first request it serves
AuthLoad(m) ==
    /\ auth.env # "unknown"
    /\ auth.secret[m] = "none"
    /\ \E secret \in SecretsOf(auth.env) : auth' = [auth EXCEPT !.secret[m] = secret]
    /\ UNCHANGED notAuth

\* POST login: 400 without password, 401 with a wrong one, else a token signed
\* with the module's secret that expires in 7 days
AuthLogin ==
    /\ auth.secret["login"] # "none"
    /\ \E password \in {"", "wrong", "right"} :
          auth' = IF password = "" THEN [auth EXCEPT !.status = 400]
                  ELSE IF password # "right" THEN [auth EXCEPT !.status = 401]
                  ELSE [auth EXCEPT !.status = 200,
                           !.token = [secret |-> auth.secret["login"],
                                      exp |-> auth.now + expiresIn],
                           !.checkedBy = "none", !.valid = FALSE]
    /\ UNCHANGED notAuth

\* a day passes
AuthTick ==
    /\ auth.env # "unknown"
    /\ auth.now < MaxDays
    /\ auth' = [auth EXCEPT !.now = @ + 1, !.checkedBy = "none", !.valid = FALSE]
    /\ UNCHANGED notAuth

\* jwt.verify(token, secret): the signature is the secret's and the token has
\* not expired
JwtVerify(token, secret, now) == token.secret = secret /\ now < token.exp

\* POST verify {token} (m = "verify") and verifyToken(token) (m = "lib")
AuthVerify(m) ==
    /\ m \in {"verify", "lib"}
    /\ auth.secret[m] # "none"
    /\ auth.token.secret # "none"
    /\ auth' = [auth EXCEPT !.checkedBy = m,
                   !.valid = JwtVerify(auth.token, auth.secret[m], auth.now)]
    /\ UNCHANGED notAuth

\* ------------------------------------ streaming loop: chunks and SSE lines
\* The upstream body is a sequence of symbols: 'data: ' is the two symbols
\* "da", "ta: "; a delta payload {"choices":[{"delta":{"content":c}}]} is
\* "{", c, "}"; "[DONE]" and the line feed "LF" are one symbol each.
DeltaTexts == <<"a", "b">>

SseLine(payload) == <<"da", "ta: ">> \o payload \o <<"LF", "LF">>

RECURSIVE UpstreamBytes(_, _)
\* the lines of the deltas i..n, then data: [DONE]
UpstreamBytes(i, n) ==
    IF i > n THEN SseLine(<<"[DONE]">>)
    ELSE SseLine(<<"{", DeltaTexts[i], "}">>) \o UpstreamBytes(i + 1, n)

IdleRelay ==
    [pc |-> "idle", rest |-> <<>>, sent |-> <<>>, assistantText |-> <<>>,
     relayed |-> <<>>, doneRelayed |-> FALSE]

notRelay == <<firstVars, importer, summ, commits, poll>>

RECURSIVE SplitLines(_, _)
\* chunk.split(/\r?\n/): cur is the line being collected
SplitLines(chunk, cur) ==
    IF chunk = <<>> THEN <<cur>>
    ELSE IF Head(chunk) = "LF" THEN <<cur>> \o SplitLines(Tail(chunk), <<>>)
    ELSE SplitLines(Tail(chunk), Append(cur, Head(chunk)))

\* l.startsWith('data: ')
StartsWithData(l) == Len(l) >= 2 /\ l[1] = "da" /\ l[2] = "ta: "

\* .filter(l => l.startsWith('data: '))
DataLines(lines) == SelectSeq(lines, StartsWithData)

\* line.replace(/^data: /, '').trim()
PayloadOf(line) == SubSeq(line, 3, Len(line))

\* JSON.parse(payload).choices?.[0]?.delta?.content || '' ; malformed JSON is
\* skipped by the catch
DeltaOf(payload) ==
    IF Len(payload) = 3 /\ payload[1] = "{" /\ payload[3] = "}"
    THEN <<payload[2]>> ELSE <<>>

RECURSIVE RelayLines(_, _)
\* for (const line of lines), the client being connected
RelayLines(r, lines) ==
    IF lines = <<>> THEN r
    ELSE LET payload == PayloadOf(Head(lines)) IN
         IF payload = <<"[DONE]">> THEN [r EXCEPT !.doneRelayed = TRUE]
         ELSE RelayLines([r EXCEPT !.assistantText = @ \o DeltaOf(payload),
                                   !.relayed = @ \o DeltaOf(payload)],
                         Tail(lines))

\* the upstream API answers with n content deltas and [DONE]
RelayStart ==
    /\ relay.pc = "idle"
    /\ \E n \in 1..MaxRelayDeltas :
          relay' = [IdleRelay EXCEPT !.pc = "reading",
                                     !.rest = UpstreamBytes(1, n),
                                     !.sent = SubSeq(DeltaTexts, 1, n)]
    /\ UNCHANGED notRelay

\* reader.read() returns the next k bytes, wherever the network cut them
RelayRead ==
    /\ relay.pc = "reading" /\ relay.rest # <<>>
    /\ \E k \in 1..Len(relay.rest) :
          LET chunk == SubSeq(relay.rest, 1, k)
              r == [relay EXCEPT !.rest = SubSeq(@, k + 1, Len(@))]
          IN relay' = RelayLines(r, DataLines(SplitLines(chunk, <<>>)))
    /\ UNCHANGED notRelay

\* reader.read() returns done: assistantText is what is saved
RelayDone ==
    /\ relay.pc = "reading" /\ relay.rest = <<>>
    /\ relay' = [relay EXCEPT !.pc = "done"]
    /\ UNCHANGED notRelay

\* ------------------------- /api/chat/importer and /api/character/importer
\* each module has its own latestImport
ImporterKinds == {"chat", "character"}

\* request bodies: 0 has no usable system message, 1 and 2 parse
ImportBodies == 0..2

\* let latestImport = null
NoImport == [isNull |-> TRUE, imported |-> FALSE, hasData |-> FALSE, data |-> <<>>]

\* log: the requests served so far with their answers
IdleImporter == [latestImport |-> NoImport, log |-> <<>>]

notImporter == <<firstVars, relay, summ, commits, poll>>

ImporterCalls == Len(importer["chat"].log) + Len(importer["character"].log)

\* parseChatData / parseCharacterData: the parsed object, or a throw
ParseData(body) == [threw |-> body = 0, data |-> IF body = 0 THEN <<>> ELSE <<"parsed", body>>]

\* POST: the slot is overwritten with the parsed data, or with the error logs
ImporterPostOf(body) ==
    LET parseResult == ParseData(body) IN
    IF ~parseResult.threw
    THEN [latestImport |-> [isNull |-> FALSE, imported |-> TRUE, hasData |-> TRUE,
                            data |-> parseResult.data],
          answer |-> [op |-> "POST", ok |-> TRUE, data |-> parseResult.data]]
    ELSE [latestImport |-> [isNull |-> FALSE, imported |-> FALSE, hasData |-> FALSE,
                            data |-> <<>>],
          answer |-> [op |-> "POST", ok |-> FALSE, data |-> <<>>]]

ImporterPost(k) ==
    /\ ImporterCalls < MaxImporterCalls
    /\ \E body \in ImportBodies :
          LET r == ImporterPostOf(body) IN
          importer' = [importer EXCEPT ![k].latestImport = r.latestImport,
                                       ![k].log = Append(@, r.answer)]
    /\ UNCHANGED notImporter

\* GET that answers a pending import without clearing the slot
ImporterGetKeeps(li) ==
    IF ~li.isNull /\ li.imported /\ li.hasData
    THEN [latestImport |-> li, answer |-> [op |-> "GET", ok |-> TRUE, data |-> li.data]]
    ELSE [latestImport |-> li, answer |-> [op |-> "GET", ok |-> FALSE, data |-> <<>>]]

\* GET: a pending import is returned and cleared; anything else answers
\* imported: false and stays
ImporterGetOf(li) ==
    IF li.isNull
    THEN [latestImport |-> li, answer |-> [op |-> "GET", ok |-> FALSE, data |-> <<>>]]
    ELSE IF li.imported /\ li.hasData
    THEN [latestImport |-> NoImport,
          answer |-> [op |-> "GET", ok |-> TRUE, data |-> li.data]]
    ELSE [latestImport |-> li, answer |-> [op |-> "GET", ok |-> FALSE, data |-> <<>>]]

ImporterGet(k) ==
    /\ ImporterCalls < MaxImporterCalls
    /\ LET r == ImporterGetOf(importer[k].latestImport) IN
       importer' = [importer EXCEPT ![k].latestImport = r.latestImport,
                                    ![k].log = Append(@, r.answer)]
    /\ UNCHANGED notImporter

\* ------------------------------------------- summaries and their watermark
\* A ChatMessage row is [id, role, content, msg]; msg names the message the
\* user sees, it is no column: it stays when the row is edited or recreated.
\* covered: the messages submitted by successful summary requests so far;
\* submitted: those of the last update-summary; op: the last request served.
IdleSummary ==
    [messages |-> [i \in 1..4 |->
                     [id |-> i, role |-> InitSession[i].role, content |-> i, msg |-> i]],
     nextId |-> 5, nextMsg |-> 5, summary |-> <<>>, lastSummary |-> 0,
     covered |-> {}, submitted |-> {}, status |-> 0, ops |-> 0, op |-> "none"]

notSummary == <<firstVars, relay, importer, commits, poll>>

\* POST /api/chat stores a message of the conversation
SummaryAddMessage ==
    /\ summ.ops < MaxSummaryOps
    /\ \E role \in {"user", "assistant"} :
          summ' = [summ EXCEPT
                      !.messages = Append(@, [id |-> summ.nextId, role |-> role,
                                              content |-> summ.nextMsg,
                                              msg |-> summ.nextMsg]),
                      !.nextId = @ + 1, !.nextMsg = @ + 1, !.ops = @ + 1,
                      !.status = 200, !.op = "chat"]
    /\ UNCHANGED notSummary

\* PUT /api/messages/:id with new content: the row keeps its id
SummaryEditMessage ==
    /\ summ.ops < MaxSummaryOps
    /\ \E i \in 1..Len(summ.messages) :
          /\ summ.messages[i].content = summ.messages[i].msg
          /\ summ' = [summ EXCEPT !.messages[i].content = @ + 10,
                                  !.ops = @ + 1, !.status = 200, !.op = "edit"]
    /\ UNCHANGED notSummary

RECURSIVE Recreate(_, _)
\* PUT /api/sessions/:id: deleteMany, then one create per message of the body
Recreate(payload, firstId) ==
    IF payload = <<>> THEN <<>>
    ELSE <<[Head(payload) EXCEPT !.id = firstId]>> \o Recreate(Tail(payload), firstId + 1)

\* confirmDeleteMessage of a user message: the list is cut there and sent
SummaryDeleteMessage ==
    /\ summ.ops < MaxSummaryOps
    /\ \E index \in 0..(Len(summ.messages) - 1) :
          /\ summ.messages[index + 1].role = "user"
          /\ LET updatedMessages == SubSeq(summ.messages, 1, index) IN
             summ' = [summ EXCEPT !.messages = Recreate(updatedMessages, summ.nextId),
                                  !.nextId = @ + Len(updatedMessages),
                                  !.ops = @ + 1, !.status = 200, !.op = "delete"]
    /\ UNCHANGED notSummary

MsgsOf(rows) == {rows[i].msg : i \in 1..Len(rows)}

\* messages[messages.length - 1]?.id || null
mostRecentMessageId(rows) ==
    IF Len(rows) > 0 THEN rows[Len(rows)].id ELSE 0

\* POST .../generate-summary: the whole conversation is summarised and the
\* watermark is set to its most recent message
GenerateSummary ==
    /\ summ.ops < MaxSummaryOps
    /\ Len(summ.messages) > 0
    /\ summ' = [summ EXCEPT !.summary = <<summ.ops>>,
                            !.lastSummary = mostRecentMessageId(summ.messages),
                            !.covered = @ \cup MsgsOf(summ.messages),
                            !.ops = @ + 1, !.status = 200, !.op = "generate"]
    /\ UNCHANGED notSummary

\* messages.filter(msg => msg.id > session.lastSummary)
newMessages(s) == SelectSeq(s.messages, LAMBDA row : row.id > s.lastSummary)

\* POST .../update-summary, the language model answering (ok) or not
UpdateSummaryOf(s, ok) ==
    IF s.lastSummary = 0 THEN [s EXCEPT !.status = 400, !.submitted = {}]
    ELSE IF Len(newMessages(s)) = 0 THEN [s EXCEPT !.status = 400, !.submitted = {}]
    ELSE IF ~ok THEN [s EXCEPT !.status = 500, !.submitted = MsgsOf(newMessages(s))]
    ELSE [s EXCEPT !.summary = Append(@, s.ops),
                   !.lastSummary = mostRecentMessageId(s.messages),
                   !.covered = @ \cup MsgsOf(newMessages(s)),
                   !.submitted = MsgsOf(newMessages(s)),
                   !.status = 200]

UpdateSummary ==
    /\ summ.ops < MaxSummaryOps
    /\ \E ok \in BOOLEAN :
          summ' = [UpdateSummaryOf(summ, ok) EXCEPT !.ops = @ + 1, !.op = "update"]
    /\ UNCHANGED notSummary

\* ----------------------------------- concurrent commits (PUT {variantId})
IdleCommit == [pc |-> "idle", variantId |-> 0, status |-> 0]

notCommit ==
    <<settingStream, postVars, pageVars, gv, chat, editVars, chatEpVars,
      characterVars, personaVars, del, auth, relay, importer, summ, poll>>

\* a client commits a variant of m it displays
CommitStart(c) ==
    /\ commits[c].pc = "idle"
    /\ \E v \in RowsOf("m") :
          commits' = [commits EXCEPT ![c] = [IdleCommit EXCEPT !.pc = "putMany",
                                                              !.variantId = v.id]]
    /\ UNCHANGED <<dbVars, allocVars, notCommit>>

\* updateMany({where: {messageId}, data: {isActive: false}})
CommitUpdateMany(c) ==
    /\ commits[c].pc = "putMany"
    /\ messageVersion' = PutSetAllInactive("m")
    /\ commits' = [commits EXCEPT ![c].pc = "putOne"]
    /\ UNCHANGED <<chatMessage, nextRowId, allocVars, notCommit>>

\* update({where: {id: variantId}, data: {isActive: true}}) and the message
\* content; a missing row throws (500)
CommitUpdate(c) ==
    /\ commits[c].pc = "putOne"
    /\ LET variantId == commits[c].variantId IN
       IF \E v \in messageVersion : v.id = variantId
       THEN /\ messageVersion' = PutSetActive(variantId)
            /\ chatMessage' = PutMessageContent("m",
                                 CHOOSE v \in messageVersion' : v.id = variantId)
            /\ commits' = [commits EXCEPT ![c].pc = "done", ![c].status = 200]
       ELSE /\ UNCHANGED <<messageVersion, chatMessage>>
            /\ commits' = [commits EXCEPT ![c].pc = "done", ![c].status = 500]
    /\ UNCHANGED <<nextRowId, allocVars, notCommit>>

\* ------------------------------------- chat list page: import polling
\* inst[e]: the e-th run of the polling effect that found isPolling &&
\* showImportModal: "checking" while its immediate checkForImport is in
\* flight, "interval" while its setInterval is alive, "cleared" after
\* clearInterval, "found" when the immediate check found an import.
\* cur: the run whose cleanup React will call next (0: none).
IdlePoll ==
    [showImportModal |-> FALSE, isPolling |-> FALSE,
     inst |-> [e \in 1..MaxEffects |-> "none"], cur |-> 0, started |-> 0, gets |-> 0]

notPoll == <<firstVars, relay, importer, summ, commits>>

\* the cleanup of the current run: if (intervalId) clearInterval(intervalId)
PollCleanup(p) ==
    IF p.cur # 0 /\ p.inst[p.cur] = "interval"
    THEN [p EXCEPT !.inst[p.cur] = "cleared", !.cur = 0]
    ELSE [p EXCEPT !.cur = 0]

\* a dependency changed: cleanup, then the effect body; checkForImport()
\* sends its GET at once
PollEffect(p) ==
    LET c == PollCleanup(p) IN
    IF c.isPolling /\ c.showImportModal
    THEN [c EXCEPT !.inst[c.started + 1] = "checking", !.cur = c.started + 1,
                   !.started = @ + 1, !.gets = @ + 1]
    ELSE c

\* the effect can run once more within the bounds
PollCanRun(p) == p.started < MaxEffects /\ p.gets < MaxGets

\* startImport: the modal opens, not polling yet
StartImport ==
    /\ ~poll.showImportModal
    /\ poll' = PollEffect([poll EXCEPT !.showImportModal = TRUE, !.isPolling = FALSE])
    /\ UNCHANGED notPoll

\* 'Start Listening for Import': setIsPolling(true)
StartListening ==
    /\ poll.showImportModal /\ ~poll.isPolling
    /\ PollCanRun(poll)
    /\ poll' = PollEffect([poll EXCEPT !.isPolling = TRUE])
    /\ UNCHANGED notPoll

\* 'Stop Listening': setIsPolling(false)
StopListening ==
    /\ poll.showImportModal /\ poll.isPolling
    /\ poll' = PollEffect([poll EXCEPT !.isPolling = FALSE])
    /\ UNCHANGED notPoll

\* resetImport: the modal is closed
ResetImport ==
    /\ poll.showImportModal
    /\ poll' = PollEffect([poll EXCEPT !.showImportModal = FALSE, !.isPolling = FALSE])
    /\ UNCHANGED notPoll

\* SWR delivers a new chars array: the effect runs again
CharsChange ==
    /\ poll.isPolling /\ poll.showImportModal => PollCanRun(poll)
    /\ poll.cur # 0
    /\ poll' = PollEffect(poll)
    /\ UNCHANGED notPoll

\* checkForImport found an import: setIsPolling(false)
PollFound(p) == PollEffect([p EXCEPT !.isPolling = FALSE])

\* the immediate check of run e resolves: an import was found, or the
\* interval is created
ImmediateCheckResolves(e) ==
    /\ poll.inst[e] = "checking"
    /\ \E importFound \in BOOLEAN :
          poll' = IF importFound
                  THEN PollFound([poll EXCEPT !.inst[e] = "found"])
                  ELSE [poll EXCEPT !.inst[e] = "interval"]
    /\ UNCHANGED notPoll

\* the interval of run e fires: checkForImport() sends a GET
IntervalTick(e) ==
    /\ poll.inst[e] = "interval"
    /\ poll.gets < MaxGets
    /\ \E importFound \in BOOLEAN :
          LET p == [poll EXCEPT !.gets = @ + 1] IN
          poll' = IF importFound THEN PollFound(p) ELSE p
    /\ UNCHANGED notPoll

\* ------------------------------------------------------- specification
\* a variant saved by an earlier generation, before the page was loaded
InitRow(j) == NewRow(j, "m", <<MaxGens + j>>, j)

\* the page is loaded on a session whose last assistant message has k saved
\* variants, none committed, with the pointer localStorage remembers (i)
InitWith(k, i) ==
    LET rows == {InitRow(j) : j \in 1..k}
        list == SortByVersion(rows)
    IN
    /\ chatMessage = [m \in Msgs |-> OrigContent]
    /\ messageVersion = rows
    /\ nextRowId = k + 1
    /\ settingStream \in BOOLEAN
    /\ post = [g \in Gens |-> IdlePost]
    /\ pipe = [g \in Gens |-> <<>>]
    /\ messages = [m \in Msgs |-> OrigContent]
    /\ messageVariants = IF k = 0 THEN EmptyMap ELSE MapSet(EmptyMap, "m", list)
    /\ currentVariantIndex = IF k = 0 THEN EmptyMap ELSE MapSet(EmptyMap, "m", i)
    /\ variantDisplayContent =
          IF k = 0 THEN EmptyMap
          ELSE MapSet(EmptyMap, "m", IF i = 0 THEN OrigContent ELSE list[i].content)
    /\ variantSelection = IF k = 0 THEN EmptyMap ELSE MapSet(EmptyMap, "m", i)
    /\ generatingVariant = "none"
    /\ loading = FALSE
    /\ isStreaming = FALSE
    /\ variantAbortController = 0
    /\ session = [content |-> [m \in Msgs |-> OrigContent],
                  versions |-> [m \in Msgs |-> list]]
    /\ gv = [g \in Gens |-> IdleGv]
    /\ chat = IdleChat
    /\ requests = [r \in Requests |-> IdleRequest]
    /\ posted = 0
    /\ deleted = 0
    /\ sessionMessages = InitSession
    /\ ep = IdleEp
    /\ upstream = IdleUpstream
    /\ saves = [w \in Savers |-> IdleSave]
    /\ character = {}
    /\ characterPosts = [r \in CharacterRequests |-> IdleCharacterPost]
    /\ persona = {1, 2}
    /\ chatSession = InitChatSessions
    /\ sessionMessage = {[id |-> s.id, sessionId |-> s.id] : s \in InitChatSessions}
    /\ personaDelete = IdlePersonaDelete
    /\ del = IdleDelete
    /\ auth = IdleAuth
    /\ relay = IdleRelay
    /\ importer = [kind \in ImporterKinds |-> IdleImporter]
    /\ summ = IdleSummary
    /\ commits = [r \in Requests |-> IdleCommit]
    /\ poll = IdlePoll
    /\ editingMessageIndex = "none"
    /\ edit = IdleEdit

Init == \E k \in 0..MaxInitRows : \E i \in 0..k : InitWith(k, i)

Next ==
    \/ \E g \in Gens : AllocRead(g)
    \/ \E g \in Gens : AllocCheck(g)
    \/ \E g \in Gens : PostFetch(g)
    \/ \E g \in Gens : ServerRead(g)
    \/ \E g \in Gens : PostSave(g)
    \/ \E g \in Gens : SocketClose(g)
    \/ \E g \in Gens : OnClose(g)
    \/ \E g \in Gens : OnAborted(g)
    \/ \E g \in Gens : GenerateVariant(g)
    \/ \E g \in Gens : GvSettings(g)
    \/ \E g \in Gens : GvResponse(g)
    \/ \E g \in Gens : GvRead(g)
    \/ \E g \in Gens : GvLatest(g)
    \/ \E g \in Gens : GvMutate(g)
    \/ \E g \in Gens : GvClear(g)
    \/ \E d \in {"prev", "next"} : NavigateVariant("m", d)
    \/ StopStreaming
    \/ HandleSend
    \/ ContinueConversation
    \/ PutUpdateMany
    \/ PutUpdate
    \/ PutMessage
    \/ AfterCommit
    \/ CleanupDelete
    \/ CleanupClient
    \/ ChatRequest

Spec == Init /\ [][Next]_vars

\* ---- the page with variant generation and message editing, no chat request
NextEdit ==
    \/ \E g \in Gens : AllocRead(g)
    \/ \E g \in Gens : AllocCheck(g)
    \/ \E g \in Gens : PostFetch(g)
    \/ \E g \in Gens : ServerRead(g)
    \/ \E g \in Gens : PostSave(g)
    \/ \E g \in Gens : SocketClose(g)
    \/ \E g \in Gens : OnClose(g)
    \/ \E g \in Gens : OnAborted(g)
    \/ \E g \in Gens : GenerateVariant(g)
    \/ \E g \in Gens : GvSettings(g)
    \/ \E g \in Gens : GvResponse(g)
    \/ \E g \in Gens : GvRead(g)
    \/ \E g \in Gens : GvLatest(g)
    \/ \E g \in Gens : GvMutate(g)
    \/ \E g \in Gens : GvClear(g)
    \/ \E d \in {"prev", "next"} : NavigateVariant("m", d)
    \/ StopStreaming
    \/ StartEdit
    \/ SaveEdit
    \/ EditPutVariant
    \/ EditRefresh
    \/ EditPutMessage
    \/ EditRestore

SpecEdit == Init /\ [][NextEdit]_vars

\* ---- import polling of the chat list page
NextPoll ==
    \/ StartImport
    \/ StartListening
    \/ StopListening
    \/ ResetImport
    \/ CharsChange
    \/ \E e \in 1..MaxEffects : ImmediateCheckResolves(e)
    \/ \E e \in 1..MaxEffects : IntervalTick(e)

SpecPoll == Init /\ [][NextPoll]_vars

\* ---- commits, generations and cleanups of any client on one message
NextCommit ==
    \/ \E c \in Requests : CommitStart(c)
    \/ \E c \in Requests : CommitUpdateMany(c)
    \/ \E c \in Requests : CommitUpdate(c)
    \/ posted < MaxCommitPosts /\ \E r \in Requests : RequestStart(r)
    \/ \E r \in Requests : RequestAllocRead(r)
    \/ \E r \in Requests : RequestAllocCheck(r)
    \/ \E r \in Requests : RequestFetch(r)
    \/ \E r \in Requests : RequestSave(r)
    \/ \E r \in Requests : RequestSocketClose(r)
    \/ DeleteRequest

SpecCommit == Init /\ [][NextCommit]_vars

\* ---- messages and summaries of one session
NextSummary ==
    \/ SummaryAddMessage
    \/ SummaryEditMessage
    \/ SummaryDeleteMessage
    \/ GenerateSummary
    \/ UpdateSummary

SpecSummary == Init /\ [][NextSummary]_vars

\* ---- the importer endpoints
NextImporter ==
    \/ \E k \in ImporterKinds : ImporterPost(k)
    \/ \E k \in ImporterKinds : ImporterGet(k)

SpecImporter == Init /\ [][NextImporter]_vars

\* ---- the streaming loop on every split of the upstream body
NextRelay == RelayStart \/ RelayRead \/ RelayDone

SpecRelay == Init /\ [][NextRelay]_vars

\* ---- the variants endpoint serving any number of clients
NextAlloc ==
    \/ \E r \in Requests : RequestStart(r)
    \/ \E r \in Requests : RequestAllocRead(r)
    \/ \E r \in Requests : RequestAllocCheck(r)
    \/ \E r \in Requests : RequestFetch(r)
    \/ \E r \in Requests : RequestSave(r)
    \/ \E r \in Requests : RequestSocketClose(r)
    \/ DeleteRequest

SpecAlloc == Init /\ [][NextAlloc]_vars

\* ---- the characters endpoint serving concurrent requests
NextCharacter ==
    \/ \E r \in CharacterRequests : CharacterPostStart(r)
    \/ \E r \in CharacterRequests : CharacterPostCreate(r)

SpecCharacter == Init /\ [][NextCharacter]_vars

\* ---- the personas endpoint while messages are being stored
NextPersona ==
    \/ PersonaDeleteStart
    \/ PersonaDeleteMessages
    \/ PersonaDeleteSessions
    \/ PersonaDeletePersona
    \/ AddSessionMessage

SpecPersona == Init /\ [][NextPersona]_vars

\* ---- deleting messages on the chat page
NextDelete ==
    \/ ConfirmDelete
    \/ SessionPutDelete
    \/ SessionPutCreate
    \/ DeleteResponse

SpecDelete == Init /\ [][NextDelete]_vars

\* ---- login and token verification
NextAuth ==
    \/ AuthStart
    \/ \E m \in AuthModules : AuthLoad(m)
    \/ AuthLogin
    \/ AuthTick
    \/ \E m \in AuthModules : AuthVerify(m)

SpecAuth == Init /\ [][NextAuth]_vars

\* ---- the chat endpoint serving one request
NextChatEp ==
    \/ EpStart
    \/ EpFetch
    \/ UpstreamChunk
    \/ UpstreamEnd
    \/ EpRead
    \/ EpSocketClose
    \/ EpOnAborted
    \/ EpOnClose
    \/ \E w \in Savers : SaveFind(w)
    \/ \E w \in Savers : SaveWrite(w)
    \/ \E w \in Savers : SaveReturn(w)

SpecChatEp == Init /\ [][NextChatEp]_vars

\* the handler's own steps are taken when they can be; the client and the
\* upstream API owe nothing
SpecChatEpFair ==
    /\ SpecChatEp
    /\ WF_vars(EpFetch)
    /\ WF_vars(EpRead)
    /\ WF_vars(EpOnClose)
    /\ \A w \in Savers : WF_vars(SaveFind(w)) /\ WF_vars(SaveWrite(w))
                          /\ WF_vars(SaveReturn(w))


\* ------------------------------------------------------------ properties
\* the pointer of m and what it designates in the page's variant list
PointerOf(cvi, m) == MapGetOr(cvi, m, 0)
ListOf(mv, m) == MapGetOr(mv, m, <<>>)
PointedEntry(mv, cvi, m) ==
    IF PointerOf(cvi, m) >= 1 /\ PointerOf(cvi, m) <= Len(ListOf(mv, m))
    THEN ListOf(mv, m)[PointerOf(cvi, m)] ELSE NoRow
IdsOf(list) == [i \in 1..Len(list) |-> list[i].id]

\* C1: a streaming variant generation whose connection is lost while the
\* handler has not yet taken its save decision (during version allocation, the
\* upstream fetch or the read loop, also after [DONE] was relayed) creates no
\* MessageVersion row.
C1_NoRowAfterDisconnect ==
    \A g \in Gens :
       (post[g].stream /\ post[g].discAt \in {"allocRead", "allocCheck", "fetch", "read"})
          => post[g].created = 0

\* the connection was lost after [DONE] had been relayed and text accumulated,
\* the handler has ended and has saved nothing
C1_Witness ==
    \E g \in Gens :
       /\ post[g].stream /\ post[g].discAt = "read" /\ post[g].pc = "done"
       /\ post[g].streamCompletedNaturally /\ post[g].assistantText # EmptyText
       /\ post[g].clientDisconnected
       /\ post[g].created = 0

\* C2: with N >= 1 variants and the pointer i in [0, N], navigateVariant sets
\* the pointer to i+1 (next, i < N), 0 (next, i = N), i-1 (prev, i > 0) or N
\* (prev, i = 0) and displays the content of the newly pointed state; with
\* N = 0 it changes nothing.
C2_Navigate ==
    [][\A d \in {"prev", "next"} :
         LET N == Len(ListOf(messageVariants, "m"))
             i == PointerOf(currentVariantIndex, "m")
             j == PointerOf(currentVariantIndex', "m")
         IN /\ N = 0 => navigateVariant(Page, "m", d) = Page
            /\ (NavigateVariant("m", d) /\ N >= 1 /\ i \in 0..N) =>
                  /\ d = "next" => j = (IF i < N THEN i + 1 ELSE 0)
                  /\ d = "prev" => j = (IF i > 0 THEN i - 1 ELSE N)
                  /\ MapHas(variantDisplayContent', "m")
                  /\ variantDisplayContent'["m"] =
                        (IF j = 0 THEN messages["m"]
                         ELSE messageVariants["m"][j].content)
                  /\ messageVariants' = messageVariants
      ]_vars

\* a generation added a variant and pointed to it; the pointer is now on the
\* original again, whose content is displayed
C2_Witness ==
    /\ gv[1].pc = "finished" /\ gv[1].outcome = "handled" /\ post[1].created # 0
    /\ chat.pc = "idle"
    /\ NavShown(Page, "m")
    /\ Len(messageVariants["m"]) >= 2
    /\ currentVariantIndex["m"] = 0
    /\ variantSelection["m"] = 0
    /\ variantDisplayContent["m"] = messages["m"]

\* C3: committing the displayed variant while the pointer is k >= 1 makes
\* ChatMessage m's content the content of the pointed entry, that row the only
\* active row of m; with the pointer 0 no request is sent and nothing changes.
C3_CommitMakesPointedCanonical ==
    [][(chat.pc # "committed" /\ chat'.pc = "committed" /\ chat'.hasVariants) =>
         IF chat'.index >= 1
         THEN /\ chatMessage'["m"] = PointedEntry(messageVariants, currentVariantIndex, "m").content
              /\ \A v \in RowsOf("m")' : v.isActive <=> v.id = chat'.selectedVariant.id
              /\ \E v \in RowsOf("m")' : v.isActive
         ELSE /\ chat.pc = "idle"
              /\ UNCHANGED dbVars
      ]_vars

C5_CommitThenCleanup ==
    [][/\ (chat.pc = "delete" /\ chat'.pc = "deleted")
            => /\ RowsOf("m")' = {}
               /\ chat.committed => chatMessage'["m"] = chat.activeVariant.content
       /\ (chat.pc = "deleted" /\ chat'.pc = "settings")
            => /\ ~MapHas(messageVariants', "m")
               /\ ~MapHas(currentVariantIndex', "m")
               /\ ~MapHas(variantDisplayContent', "m")
               /\ RowsOf("m")' = RowsOf("m")
      ]_vars

\* continueConversation committed a variant and cleaned up
C5_Witness ==
    /\ chat.kind = "continue" /\ chat.committed /\ chat.pc = "settings"
    /\ RowsOf("m") = {}
    /\ chatMessage["m"] = chat.selectedVariant.content
    /\ chatMessage["m"] # OrigContent
    /\ ~MapHas(messageVariants, "m")

\* C6: once the chat request of handleSend or continueConversation is issued,
\* no MessageVersion row remains for the earlier assistant message.
C6_NoVariantsOnceChatIssued ==
    chat.pc = "issued" => RowsOf("m") = {}

\* C7: when the response handling of a generation that the server persisted as
\* row r is complete, the list has one more entry than before the call, its
\* last entry is r and the pointer is the list length.
C7_LastEntryIsNewRow ==
    \A g \in Gens :
       (/\ gv[g].pc = "mutateTimer" /\ gv[g].outcome = "handled" /\ ~gv[g].aborted
        /\ post[g].created # 0
        /\ chat.pc = "idle")
       => LET list == ListOf(messageVariants, "m") IN
          /\ Len(list) = Len(gv[g].pre.list) + 1
          /\ list[Len(list)].id = post[g].created
          /\ list[Len(list)].version = post[g].nextVersion
          /\ PointerOf(currentVariantIndex, "m") = Len(list)

\* C8: stopStreaming rolls the pointer back to the last saved variant, or to
\* the original when there is none; it never leaves it on the placeholder.
C8_StopRollsPointerBack ==
    [][(variantAbortController # 0 /\ variantAbortController' = 0
        /\ gv'[variantAbortController].aborted /\ ~gv[variantAbortController].aborted
        /\ generatingVariant = "m")
       => LET list == ListOf(messageVariants', "m")
              saved == {i \in 1..Len(list) : list[i].id >= 1}
              j == PointerOf(currentVariantIndex', "m")
          IN /\ PointedEntry(messageVariants', currentVariantIndex', "m").id # -1
             /\ j = (IF saved = {} THEN 0 ELSE CHOOSE i \in saved : \A k \in saved : k <= i)
      ]_vars

\* C9: once a stopped generation is over (its handler run and its refresh
\* done), generatingVariant is null and the page's list holds exactly the
\* MessageVersion rows of the server.
C9_ResyncAfterStop ==
    \A g \in Gens :
       (/\ gv[g].aborted /\ gv[g].pc = "finished"
        /\ post[g].pc \in {"idle", "done"}
        /\ chat.pc = "idle")
       => /\ generatingVariant = "none"
          /\ IdsOf(ListOf(messageVariants, "m")) = IdsOf(SortByVersion(RowsOf("m")))

\* C10: a failed generation (non-OK response) leaves the list without the
\* placeholder and the pointer and the displayed content as they were before
\* generateVariant was invoked.
C10_FailureRevertsState ==
    [][\A g \in Gens :
         (gv[g].pc = "posting" /\ gv'[g].outcome = "failed")
         => /\ \A i \in 1..Len(ListOf(messageVariants', "m")) :
                  ListOf(messageVariants', "m")[i].id # -1
            /\ PointerOf(currentVariantIndex', "m") = gv[g].pre.index
            /\ (IF MapHas(variantDisplayContent', "m")
                THEN variantDisplayContent'["m"] ELSE messages'["m"])
                  = gv[g].pre.display
      ]_vars

\* C11: saving an edit while the message's pointer is k >= 1 changes exactly
\* the content of the MessageVersion row the pointer designates, to the
\* trimmed text, and leaves ChatMessage and every other row as they were;
\* saving with the pointer at 0 or without variants sets ChatMessage.content to
\* the trimmed text and leaves every MessageVersion row as it was.
C11_EditChangesPointedRowOnly ==
    [][edit.pc \in {"editing", "putVariant", "putMessage"} /\ edit'.pc # edit.pc
       /\ edit'.pc \in {"done", "failed", "refreshTimer", "restoreTimer"}
       => IF edit.pc = "putMessage"
          THEN /\ messageVersion' = messageVersion
               /\ chatMessage' = [chatMessage EXCEPT !["m"] = edit.trimmedContent]
          ELSE /\ chatMessage' = chatMessage
               /\ edit.pc = "putVariant"
               /\ \E v \in messageVersion :
                    /\ v.id = edit.variantToEdit.id
                    /\ v.messageId = "m"
                    /\ messageVersion' =
                          (messageVersion \ {v})
                             \cup {[v EXCEPT !.content = edit.trimmedContent]}]_vars

\* C12: no two MessageVersion rows of one message have the same version, and a
\* row inserted by a generation request has a version greater than the version
\* of every row the message has at the moment of the insertion, whatever the
\* interleaving of generation requests and DELETE cleanups.
C12_VersionsUniqueAndIncreasing ==
    [][/\ \A v, w \in messageVersion' :
             v.messageId = w.messageId /\ v.version = w.version => v = w
       /\ \A new \in messageVersion' \ messageVersion :
             \A old \in RowsOf(new.messageId) : new.version > old.version]_vars

\* C13: the version allocation of a generation request makes at most 3
\* attempts; each attempt computes max+1, and the request goes on with that
\* version only if no row has it when it is checked; when the version was
\* taken at all 3 attempts the request ends with HTTP 500, creates no row and
\* never calls the language model.
C13_AllocationBounded ==
    [][\A r \in Requests :
          LET p == requests[r]
              q == requests'[r]
          IN /\ q.retryCount <= maxRetries
             /\ q.pc \in {"allocRead", "allocCheck"} => q.retryCount < maxRetries
             /\ p.pc = "allocRead" /\ q.pc = "allocCheck"
                   => q.nextVersion = LastVersionOf(RowsOf("m")) + 1
             /\ p.pc = "allocCheck" /\ q.pc = "fetch"
                   => /\ ~\E v \in RowsOf("m") : v.version = p.nextVersion
                      /\ q.nextVersion = p.nextVersion
             /\ p.pc = "allocCheck" /\ q.pc \notin {"allocCheck", "fetch"}
                   => /\ \E v \in RowsOf("m") : v.version = p.nextVersion
                      /\ q.retryCount = p.retryCount + 1
             /\ q.retryCount = maxRetries
                   => /\ q.pc = "done" /\ q.status = 500
                      /\ q.created = 0 /\ ~q.llmCalled]_vars

C13_Witness ==
    \E r \in Requests :
        /\ requests[r].retryCount = maxRetries
        /\ requests[r].status = 500

\* C14: when the client aborts a streaming request, the handler terminates
\* whatever the upstream API does afterwards, in particular when it sends no
\* further chunk and does not end the stream.
C14_AbortEndsHandler ==
    (ep.stream /\ ep.pc = "reading" /\ ep.resDestroyed) ~> (ep.pc = "done")

\* t occurs in c
IsSegment(t, c) ==
    \E i \in 0..(Len(c) - Len(t)) : SubSeq(c, i + 1, i + Len(t)) = t

\* the handler and every save it started are finished
EpQuiescent == ep.pc = "done" /\ \A w \in Savers : saves[w].pc \in {"none", "done"}

\* C15: a streaming chat request whose client disconnected, or whose upstream
\* read failed, with accumulated text that is not blank, has stored that text
\* as content of an assistant message of the session.
C15_PartialTextPersisted ==
    /\ ep.stream /\ EpQuiescent
    /\ ep.resDestroyed \/ ep.readFailed
    /\ Trim(ep.assistantText) # EmptyText
    => \E i \in 1..Len(sessionMessages) :
          /\ sessionMessages[i].role = "assistant"
          /\ IsSegment(ep.assistantText, sessionMessages[i].content)
          /\ i > Len(InitSession) \/ sessionMessages[i].content # InitSession[i].content

C15_Witness ==
    /\ ep.stream /\ EpQuiescent
    /\ ep.resDestroyed /\ ~ep.readFailed /\ ~ep.streamCompleted
    /\ Trim(ep.assistantText) # EmptyText
    /\ sessionMessages[Len(sessionMessages)].role = "assistant"
    /\ IsSegment(ep.assistantText, sessionMessages[Len(sessionMessages)].content)

C17_PersonaDeleteCascades ==
    [][/\ personaDelete'.status = 204
          => LET id == personaDelete'.personaId IN
             /\ id \notin persona'
             /\ ~\E s \in chatSession' : s.personaId = id
             /\ ~\E m \in sessionMessage' :
                   \E s \in InitChatSessions : s.id = m.sessionId /\ s.personaId = id
       /\ personaDelete.pc \in {"messages", "sessions", "persona"}
          /\ personaDelete'.pc # personaDelete.pc
          => LET id == personaDelete.personaId IN
             /\ persona' \ {id} = persona \ {id}
             /\ {s \in chatSession' : s.personaId # id}
                   = {s \in chatSession : s.personaId # id}
             /\ {m \in sessionMessage' : [id |-> m.sessionId, personaId |-> id]
                                              \notin InitChatSessions}
                   = {m \in sessionMessage : [id |-> m.sessionId, personaId |-> id]
                                                \notin InitChatSessions}]_vars

C17_Witness ==
    /\ personaDelete.status = 204
    /\ personaDelete.cascaded
    /\ personaDelete.personaId \notin persona
    /\ sessionMessage # {}

\* C18: after the deletion of the message at index i is confirmed and served,
\* the session holds exactly the first i messages of the conversation as it
\* was displayed, in order and with their roles and contents, and so does the
\* page; when the server answers with a failure, the page shows again the list
\* it showed before the deletion.
C18_DeleteKeepsPrefix ==
    del.pc = "done"
    => IF del.status = 200
       THEN /\ sessionMessages = SubSeq(del.before, 1, del.index)
            /\ del.messages = SubSeq(del.before, 1, del.index)
       ELSE del.messages = del.before

C18_Witness ==
    /\ del.pc = "done" /\ del.status = 200
    /\ del.index = 2
    /\ sessionMessages = SubSeq(InitSession, 1, 2)

\* C19: a token issued by a successful login is found valid by the verify
\* endpoint and by verifyToken whenever it is checked before its expiry, with
\* JWT_SECRET set and with JWT_SECRET not set.
C19_TokenValidUntilExpiry ==
    auth.checkedBy # "none" /\ auth.now < auth.token.exp => auth.valid

C21_AtMostOneInserts ==
    [][\A r, s \in Requests :
          LET p == requests[r]
              q == requests'[r]
          IN (/\ r # s
              /\ p.pc = "saving" /\ q.pc = "done"
              /\ requests[s].created # 0
              /\ requests[s].nextVersion = p.nextVersion)
             => /\ q.created = 0
                /\ messageVersion' = messageVersion
                /\ IF settingStream THEN q.sse = "race_condition"
                                    ELSE q.status = 409]_vars

\* C22: the chat endpoint never stores two consecutive assistant messages in
\* a session, whatever the chat requests are (send, retry or continue,
\* streaming or not): saveAssistantMessage appends to a last message of role
\* assistant and creates a message only after a message of another role.
C22_NoConsecutiveAssistants ==
    \A i \in 1..(Len(sessionMessages) - 1) :
        ~(/\ sessionMessages[i].role = "assistant"
          /\ sessionMessages[i + 1].role = "assistant")

\* C25: for one streaming chat request the accumulated assistant text is
\* stored at most once: of the 'close' listener, the 'aborted' listener and
\* the handler's own completion path at most one writes it, under every
\* interleaving of the three.
C25_PersistedAtMostOnce ==
    ep.stream => Cardinality({w \in Savers : saves[w].pc \in {"update", "done"}}) <= 1

\* C26: however the upstream byte stream is cut into read chunks, a cut
\* inside an SSE data line included, the content relayed to a connected
\* client and the text saved at the end are the concatenation of all content
\* deltas the upstream API sent before [DONE].
C26_RelayEqualsUpstream ==
    relay.pc = "done"
       => /\ relay.relayed = relay.sent
          /\ relay.assistantText = relay.sent

\* C23: an importer endpoint holds at most one pending import. A GET answers
\* imported: true, with the parsed payload, exactly when the last request
\* before it that was a POST or an answering GET is a POST that parsed, and
\* the payload is that POST's; every other GET answers imported: false. So a
\* payload is handed out by the first GET after its POST only, and a POST
\* before retrieval, parsed or not, replaces what was pending.
C23_OnePendingImport ==
    \A k \in ImporterKinds :
        LET log == importer[k].log IN
        \A j \in 1..Len(log) :
            log[j].op = "GET"
            => LET prior == {i \in 1..(j - 1) : log[i].op = "POST" \/ log[i].ok}
               IN IF prior = {} THEN ~log[j].ok
                  ELSE LET i == CHOOSE x \in prior : \A y \in prior : y <= x
                       IN IF log[i].op = "POST" /\ log[i].ok
                          THEN log[j].ok /\ log[j].data = log[i].data
                          ELSE ~log[j].ok /\ log[j].data = <<>>

\* two payloads are posted, the first GET returns the second one, the next
\* GET returns nothing
C23_Witness ==
    \E k \in ImporterKinds :
        LET log == importer[k].log IN
        /\ Len(log) = 4
        /\ log[1].op = "POST" /\ log[1].ok
        /\ log[2].op = "POST" /\ log[2].ok /\ log[2].data # log[1].data
        /\ log[3].op = "GET" /\ log[3].ok /\ log[3].data = log[2].data
        /\ log[4].op = "GET" /\ ~log[4].ok

\* C24: whatever sends, edits, deletions and summary requests came before,
\* an update-summary submits no message that an earlier successful summary
\* generation or update already covered, and when the session holds no
\* message that is not covered yet it answers 400 and leaves summary and
\* lastSummary as they are.
C24_OnlyNewMessagesSubmitted ==
    [][summ'.ops = summ.ops + 1 /\ summ'.op = "update"
       => /\ summ'.submitted \cap summ.covered = {}
          /\ (summ.lastSummary # 0 /\ MsgsOf(summ.messages) \subseteq summ.covered)
                => /\ summ'.status = 400
                   /\ summ'.summary = summ.summary
                   /\ summ'.lastSummary = summ.lastSummary]_vars

\* C27: whenever no variant generation is in progress, every message that
\* has a client-side variant list has a pointer between 0 (the original) and
\* the length of that list, after any sequence of generate, navigate, stop,
\* load, refresh, commit and cleanup.
C27_PointerInRange ==
    generatingVariant = "none"
       => \A m \in Msgs :
             MapHas(messageVariants, m)
                => /\ PointerOf(currentVariantIndex, m) >= 0
                   /\ PointerOf(currentVariantIndex, m) <= Len(ListOf(messageVariants, m))

\* C29: a chat request and a variant generation never overlap on the chat
\* page: no handleSend or continue starts (and commits variants) while
\* generatingVariant is set, and no generation starts while a chat request
\* is loading or streaming or another generation is in progress.
C29_SendAndGenerateNeverOverlap ==
    [][/\ (chat.pc = "idle" /\ chat'.pc # "idle") => generatingVariant = "none"
       /\ (generatingVariant = "none" /\ generatingVariant' # "none")
             => ~loading /\ ~isStreaming]_vars

\* C28: at most one MessageVersion row of a message has isActive = true,
\* after any sequence and any interleaving of commits (PUT without content),
\* variant generations and cleanups on that message.
C28_AtMostOneActive ==
    \A v, w \in messageVersion :
        v.messageId = w.messageId /\ v.isActive /\ w.isActive => v = w

\* C30: once import polling is stopped on the chat list page (modal closed,
\* import found, or isPolling false) the page sends no further GET
\* /api/chat/importer, whenever the stop happens relative to the immediate
\* check that precedes the creation of the interval: a GET is sent only in a
\* step before or after which the page is polling with the modal open.
C30_NoGetAfterStop ==
    [][poll'.gets # poll.gets
       => \/ poll.isPolling /\ poll.showImportModal
          \/ poll'.isPolling /\ poll'.showImportModal]_vars

====
